---- MODULE Spec2Model ----
(***************************************************************************)
(* Model of the CIRRUS portal's modular Helm chart generator               *)
(* (cirrus-apps/app/routes/chart_generator.py), of its status page and of  *)
(* its application request form.                                           *)
(*                                                                         *)
(* Text is modelled as a sequence of one-character strings, so that        *)
(* str.replace, str.split, str.rsplit and str.lower are computed           *)
(* character by character as Python computes them.  A Python value is a    *)
(* record [t, s, n, b]: t is the type tag, and s, n, b hold the payload of *)
(* a str, an int and a bool.  The tag "absent" stands for a key that is    *)
(* not in a dict.                                                          *)
(*                                                                         *)
(* Spec follows one POST to /api/generate-helm through generate_helm and   *)
(* generate_modular_chart.  SpecPR follows one call of create_github_pr,   *)
(* SpecZip one call of create_zip, SpecStatus one GET of /status           *)
(* (cirrus-apps/app/main/views.py), and SpecJira one request to            *)
(* request_app (cirrus-apps/app/jira/views.py).                            *)
(***************************************************************************)
EXTENDS Integers, Sequences, FiniteSets, TLC

VARIABLES
    data,            \* request.json of the POST (generate_helm, line 51)
    pc,              \* position of the handler
    app_config,      \* generate_helm's app_config dict
    enabled_addons,  \* generate_helm's enabled_addons list
    addon_config,    \* generate_helm's addon_config dict
    files,           \* generate_modular_chart's files dict, in insertion order
    response,        \* what the handler answers
    gh,              \* create_github_pr: its arguments, locals and the remote repository
    zip_file,        \* create_zip: its arguments, the archive and its buffer
    config,          \* status: the config dict of status_monitors.yaml, and the loop position
    kuma,            \* status: what the Uptime Kuma server answers, page by page
    jira             \* request_app: the request, the calls to the tracker, the flashes

vars == <<data, pc, app_config, enabled_addons, addon_config, files, response, gh,
          zip_file, config, kuma, jira>>

----------------------------------------------------------------------------
(* Python values *)

Absent == [t |-> "absent", s |-> <<>>, n |-> 0, b |-> FALSE]

PyNone == [t |-> "none", s |-> <<>>, n |-> 0, b |-> FALSE]

PyStr(chars) == [t |-> "str", s |-> chars, n |-> 0, b |-> FALSE]

PyInt(i) == [t |-> "int", s |-> <<>>, n |-> i, b |-> FALSE]

PyBool(x) == [t |-> "bool", s |-> <<>>, n |-> 0, b |-> x]

\* Python's truth value of an object (used by `not x`, `if x`, bool(x)).
Truthy(v) ==
    CASE v.t = "str" -> v.s # <<>>
      [] v.t = "int" -> v.n # 0
      [] v.t = "bool" -> v.b
      [] OTHER -> FALSE

\* dict.get(key, default): the default only when the key is missing.
Get(d, k, default) == IF d[k].t = "absent" THEN default ELSE d[k]

----------------------------------------------------------------------------
(* Text *)

Digits == <<"0", "1", "2", "3", "4", "5", "6", "7", "8", "9">>

UpperCase == <<"A", "B", "C", "D", "E", "F", "G", "H", "I", "J", "K", "L", "M",
               "N", "O", "P", "Q", "R", "S", "T", "U", "V", "W", "X", "Y", "Z">>

LowerCase == <<"a", "b", "c", "d", "e", "f", "g", "h", "i", "j", "k", "l", "m",
               "n", "o", "p", "q", "r", "s", "t", "u", "v", "w", "x", "y", "z">>

IsDigit(c) == \E i \in 1..10 : Digits[i] = c

DigitValue(c) == (CHOOSE i \in 1..10 : Digits[i] = c) - 1

\* str.lower() on one character.
LowerChar(c) ==
    IF \E i \in 1..26 : UpperCase[i] = c
    THEN LowerCase[CHOOSE i \in 1..26 : UpperCase[i] = c]
    ELSE c

\* str.lower()
Lower(s) == [i \in 1..Len(s) |-> LowerChar(s[i])]

\* `sub in s` for strings
RECURSIVE Contains(_, _)
Contains(s, sub) ==
    IF Len(s) < Len(sub) THEN FALSE
    ELSE IF SubSeq(s, 1, Len(sub)) = sub THEN TRUE
    ELSE Contains(Tail(s), sub)

\* s.startswith(prefix)
StartsWith(s, prefix) ==
    Len(s) >= Len(prefix) /\ SubSeq(s, 1, Len(prefix)) = prefix

\* s.endswith(suffix)
EndsWith(s, suffix) ==
    Len(s) >= Len(suffix) /\ SubSeq(s, Len(s) - Len(suffix) + 1, Len(s)) = suffix

\* s.replace(old, new) for a non-empty old: every non-overlapping occurrence,
\* left to right.
RECURSIVE Replace(_, _, _)
Replace(s, old, new) ==
    IF Len(s) < Len(old) \/ old = <<>> THEN s
    ELSE IF SubSeq(s, 1, Len(old)) = old
         THEN new \o Replace(SubSeq(s, Len(old) + 1, Len(s)), old, new)
         ELSE <<Head(s)>> \o Replace(Tail(s), old, new)

\* s.split(sep)[0] for a one-character sep: the text before the first sep.
RECURSIVE SplitFirst(_, _)
SplitFirst(s, sep) ==
    IF s = <<>> \/ Head(s) = sep THEN <<>>
    ELSE <<Head(s)>> \o SplitFirst(Tail(s), sep)

\* Index of the last occurrence of the character sep in s, 0 when there is none.
RECURSIVE LastIndex(_, _)
LastIndex(s, sep) ==
    IF s = <<>> THEN 0
    ELSE IF s[Len(s)] = sep THEN Len(s)
    ELSE LastIndex(SubSeq(s, 1, Len(s) - 1), sep)

\* s.rsplit(sep, 1): one or two parts, split at the last sep.
RSplit1(s, sep) ==
    LET i == LastIndex(s, sep)
    IN  IF i = 0 THEN <<s>>
        ELSE <<SubSeq(s, 1, i - 1), SubSeq(s, i + 1, Len(s))>>

\* str(n) for an int n >= 0
RECURSIVE IntText(_)
IntText(i) ==
    IF i < 10 THEN <<Digits[i + 1]>>
    ELSE IntText(i \div 10) \o <<Digits[(i % 10) + 1]>>

\* The value of a string of decimal digits.
RECURSIVE DigitsValue(_)
DigitsValue(s) ==
    IF s = <<>> THEN 0
    ELSE 10 * DigitsValue(SubSeq(s, 1, Len(s) - 1)) + DigitValue(s[Len(s)])

T_True == <<"T", "r", "u", "e">>

T_False == <<"F", "a", "l", "s", "e">>

T_None == <<"N", "o", "n", "e">>

T_true == <<"t", "r", "u", "e">>

T_false == <<"f", "a", "l", "s", "e">>

\* str(v), which is also what an f-string's {v} splices in.
Str(v) ==
    CASE v.t = "str" -> v.s
      [] v.t = "int" -> IntText(v.n)
      [] v.t = "bool" -> (IF v.b THEN T_True ELSE T_False)
      [] OTHER -> T_None

\* int(v): [ok, val] or [ok |-> FALSE, err].  A str must be decimal digits
\* (the inputs drawn here carry no sign, blank or underscore).
IntOf(v) ==
    CASE v.t = "int" -> [ok |-> TRUE, val |-> PyInt(v.n), err |-> "none"]
      [] v.t = "bool" -> [ok |-> TRUE, val |-> PyInt(IF v.b THEN 1 ELSE 0), err |-> "none"]
      [] v.t = "str" ->
            IF v.s # <<>> /\ \A i \in 1..Len(v.s) : IsDigit(v.s[i])
            THEN [ok |-> TRUE, val |-> PyInt(DigitsValue(v.s)), err |-> "none"]
            ELSE [ok |-> FALSE, val |-> PyNone, err |-> "ValueError"]
      [] OTHER -> [ok |-> FALSE, val |-> PyNone, err |-> "TypeError"]

----------------------------------------------------------------------------
(* The add-on registry *)

\* AVAILABLE_ADDONS, its keys in declaration order.
AddonIds == <<"cnpg", "dask", "persistence", "nfs", "external_secrets">>

AVAILABLE_ADDONS ==
    [a \in {AddonIds[i] : i \in 1..Len(AddonIds)} |->
        CASE a = "cnpg" ->
                [name |-> "CloudNativePG Cluster",
                 fields |-> <<"cnpg_instances", "cnpg_storage_size", "cnpg_backup_enabled",
                              "cnpg_enable_superuser", "cnpg_superuser_secret_path",
                              "cnpg_superuser_username_key", "cnpg_superuser_password_key",
                              "cnpg_app_owner", "cnpg_app_secret_path",
                              "cnpg_app_password_key">>]
          [] a = "dask" ->
                [name |-> "Dask Cluster",
                 fields |-> <<"worker_replicas", "worker_threads", "worker_memory">>]
          [] a = "persistence" ->
                [name |-> "Persistent Volume",
                 fields |-> <<"pv_access_mode", "pv_storage_size", "pv_mount_path">>]
          [] a = "nfs" ->
                [name |-> "NFS Volume",
                 fields |-> <<"nfs_server", "nfs_path", "nfs_mount_path", "nfs_readonly">>]
          [] OTHER ->
                [name |-> "External Secrets (Vault)",
                 fields |-> <<"secret_path">>]]

RegistryKeys == DOMAIN AVAILABLE_ADDONS

\* Mutant of InList: only the first identifier of the list counts.
InListFirstMutant(a, list) == list # <<>> /\ list[1] = a

\* `a in enabled_addons` for a list
InList(a, list) == \E i \in 1..Len(list) : list[i] = a

----------------------------------------------------------------------------
(* The request *)

\* The keys generate_helm reads into app_config.
BaseKeys == {"app_name", "image", "replicas", "port", "enable_ingress",
             "ingress_type", "domain"}

\* The keys generate_helm converts with int().
NumericKeys == {"cnpg_instances", "worker_replicas", "worker_threads"}

\* The keys generate_helm converts to bool.
BoolKeys == {"cnpg_backup_enabled", "nfs_readonly", "cnpg_enable_superuser"}

\* Every other key of the request goes into addon_config as it is; these are
\* the ones the generator reads.
TextKeys == {"cnpg_storage_size", "cnpg_superuser_secret_path",
             "cnpg_superuser_username_key", "cnpg_superuser_password_key",
             "cnpg_app_owner", "cnpg_app_secret_path", "cnpg_app_password_key",
             "worker_memory", "pv_access_mode", "pv_storage_size", "pv_mount_path",
             "nfs_server", "nfs_path", "nfs_mount_path", "secret_path"}

AddonKeys == NumericKeys \cup BoolKeys \cup TextKeys

DataKeys == BaseKeys \cup AddonKeys

EmptyDict == [k \in DataKeys |-> Absent]

NoAddonConfig == [k \in AddonKeys |-> Absent]

NoAppConfig == [k \in BaseKeys |-> Absent]

T_k8s == <<".", "k", "8", "s", ".", "u", "c", "a", "r", ".", "e", "d", "u">>

\* Texts of the fields of the requests drawn below: host names, domain
\* tails, an application name and an image.
T_foo == <<"f", "o", "o">>

T_example == <<".", "e", "x", "a", "m", "p", "l", "e", ".", "o", "r", "g">>

T_evil == <<".", "e", "v", "i", "l", ".", "c", "o", "m">>

T_app == <<"a", "p", "p">>

T_img == <<"i", "m", "g">>

T_internal == <<"i", "n", "t", "e", "r", "n", "a", "l">>

T_external == <<"e", "x", "t", "e", "r", "n", "a", "l">>

\* The longest enabled_addons list drawn.
MaxAddons == 2

\* An identifier that is no key of the registry.
UnknownAddon == "autoscaling"

AppNamesIn == {Absent, PyStr(<<>>), PyStr(T_app)}

\* A reference whose registry host has a port and that has no tag.
T_registry_port == <<"r", ":", "5", "/", "a">>

ImagesIn == {PyStr(<<>>), PyStr(T_img), PyStr(T_img \o <<":", "1">>),
             PyStr(T_registry_port), PyStr(T_registry_port \o <<":", "1">>)}

ReplicasIn == {Absent, PyStr(<<"0", "3">>), PyStr(<<"x">>)}

IngressFlagsIn == {Absent, PyBool(TRUE), PyBool(FALSE), PyStr(T_false), PyStr(T_true)}

IngressTypesIn == {Absent, PyStr(T_internal), PyStr(T_external)}

DomainTails == {<<>>, T_k8s, T_example, T_k8s \o T_evil}

DomainsIn == {Absent} \cup {PyStr(T_foo \o tail) : tail \in DomainTails}

NumericIn == {PyStr(<<>>), PyStr(<<"0", "5">>), PyStr(<<"a", "b", "c">>), PyInt(4), PyNone}

BoolIn == {PyBool(TRUE), PyStr(T_true), PyStr(T_false), PyStr(<<"o", "n">>)}

TextIn == {PyStr(<<"/", "x">>)}

\* The identifiers of set S in the order of the registry.
RECURSIVE InRegistryOrder(_, _)
InRegistryOrder(S, i) ==
    IF i > Len(AddonIds) THEN <<>>
    ELSE (IF AddonIds[i] \in S THEN <<AddonIds[i]>> ELSE <<>>) \o InRegistryOrder(S, i + 1)

\* The enabled_addons lists drawn: every list of at most MaxAddons identifiers,
\* registered or not, in any order and with repetitions, and every set of
\* registered add-ons in the order of the registry.
AddonListsIn ==
    UNION {[1..n -> RegistryKeys \cup {UnknownAddon}] : n \in 0..MaxAddons}
    \cup {InRegistryOrder(S, 1) : S \in SUBSET RegistryKeys}

\* Requests that vary the base application fields, with no add-on.
BaseSweep ==
    {[f |-> [k \in DataKeys |->
                CASE k = "app_name" -> n
                  [] k = "image" -> im
                  [] k = "replicas" -> r
                  [] k = "enable_ingress" -> e
                  [] k = "ingress_type" -> ty
                  [] k = "domain" -> d
                  [] OTHER -> Absent],
      addons |-> <<>>] :
        n \in AppNamesIn, im \in ImagesIn, r \in ReplicasIn,
        e \in IngressFlagsIn, ty \in IngressTypesIn, d \in DomainsIn}

\* The add-on field settings drawn: none, or one field of the request set.
AddonFieldsIn ==
    {NoAddonConfig}
    \cup {[NoAddonConfig EXCEPT ![k] = v] : k \in NumericKeys, v \in NumericIn}
    \cup {[NoAddonConfig EXCEPT ![k] = v] : k \in BoolKeys, v \in BoolIn}
    \cup {[NoAddonConfig EXCEPT ![k] = v] : k \in TextKeys, v \in TextIn}

\* Requests of a valid application, without and with ingress, that vary the
\* enabled add-ons and their fields.
AddonSweep ==
    {[f |-> [k \in DataKeys |->
                CASE k = "app_name" -> PyStr(T_app)
                  [] k = "image" -> PyStr(T_img \o <<":", "1">>)
                  [] k = "enable_ingress" -> (IF ing THEN PyBool(TRUE) ELSE Absent)
                  [] k = "domain" -> (IF ing THEN PyStr(T_foo \o T_k8s) ELSE Absent)
                  [] k \in AddonKeys -> af[k]
                  [] OTHER -> Absent],
      addons |-> l] :
        ing \in BOOLEAN, l \in AddonListsIn, af \in AddonFieldsIn}

Requests == BaseSweep \cup AddonSweep

----------------------------------------------------------------------------
(* generate_helm *)

DefaultReplicas == 2

DefaultPort == 8080

NoResponse == [kind |-> "none", status |-> 0, error |-> "none", at |-> "none"]

\* Flask's answer to an exception that leaves the view function; at names
\* the step that raised it.
Unhandled(err, at) == [kind |-> "exception", status |-> 500, error |-> err, at |-> at]

JsonError(code, msg) == [kind |-> "json_error", status |-> code, error |-> msg, at |-> "none"]

NoGh == [pc |-> "unused"]

NoZip == [pc |-> "unused"]

NoConfig == [pc |-> "unused"]

NoJira == [pc |-> "unused"]

Init ==
    /\ data \in Requests
    /\ pc = "extract_app"
    /\ app_config = NoAppConfig
    /\ enabled_addons = <<>>
    /\ addon_config = NoAddonConfig
    /\ files = <<>>
    /\ response = NoResponse
    /\ gh = NoGh
    /\ zip_file = NoZip
    /\ config = NoConfig
    /\ kuma = <<>>
    /\ jira = NoJira

\* Lines 54-66: app_config and enabled_addons from the request.
ExtractAppConfig ==
    /\ pc = "extract_app"
    /\ LET replicas == IntOf(Get(data.f, "replicas", PyInt(DefaultReplicas)))
           port == IntOf(Get(data.f, "port", PyInt(DefaultPort)))
       IN  IF ~replicas.ok \/ ~port.ok
           THEN /\ response' = Unhandled(IF replicas.ok THEN port.err ELSE replicas.err,
                                        "extract_app")
                /\ pc' = "done"
                /\ UNCHANGED <<app_config, enabled_addons>>
           ELSE /\ app_config' =
                      [k \in BaseKeys |->
                          CASE k = "app_name" -> Get(data.f, "app_name", PyNone)
                            [] k = "image" -> Get(data.f, "image", PyNone)
                            [] k = "replicas" -> replicas.val
                            [] k = "port" -> port.val
                            [] k = "enable_ingress" -> Get(data.f, "enable_ingress", PyBool(FALSE))
                            [] k = "ingress_type" -> Get(data.f, "ingress_type", PyStr(T_external))
                            [] OTHER -> Get(data.f, "domain", PyStr(<<>>))]
                /\ enabled_addons' = data.addons
                /\ pc' = "extract_addons"
                /\ UNCHANGED response
    /\ UNCHANGED <<data, addon_config, files, gh, zip_file, config, kuma, jira>>

\* Lines 74-81: the value stored in addon_config for key k of the request.
Coerce(k, v) ==
    IF k \in NumericKeys
    THEN IF Truthy(v) THEN IntOf(v) ELSE [ok |-> TRUE, val |-> PyNone, err |-> "none"]
    ELSE IF k \in BoolKeys
         THEN [ok |-> TRUE,
               val |-> IF v.t = "str" THEN PyBool(v.s = T_true) ELSE PyBool(Truthy(v)),
               err |-> "none"]
         ELSE [ok |-> TRUE, val |-> v, err |-> "none"]

\* Lines 68-81: addon_config from the remaining keys of the request.
ExtractAddonConfig ==
    /\ pc = "extract_addons"
    /\ LET present == {k \in AddonKeys : data.f[k].t # "absent"}
           failed == {k \in present : ~Coerce(k, data.f[k]).ok}
       IN  IF failed # {}
           THEN /\ response' = Unhandled(Coerce(CHOOSE k \in failed : TRUE,
                                                data.f[CHOOSE k \in failed : TRUE]).err,
                                        "extract_addons")
                /\ pc' = "done"
                /\ UNCHANGED addon_config
           ELSE /\ addon_config' =
                      [k \in AddonKeys |->
                          IF k \in present THEN Coerce(k, data.f[k]).val ELSE Absent]
                /\ pc' = "validate"
                /\ UNCHANGED response
    /\ UNCHANGED <<data, app_config, enabled_addons, files, gh, zip_file, config, kuma, jira>>

\* Lines 83-85: the required fields.
Validate ==
    /\ pc = "validate"
    /\ IF ~Truthy(app_config["app_name"]) \/ ~Truthy(app_config["image"])
       THEN /\ response' = JsonError(400, "App name and image are required")
            /\ pc' = "done"
       ELSE /\ pc' = "assemble"
            /\ UNCHANGED response
    /\ UNCHANGED <<data, app_config, enabled_addons, addon_config, files, gh, zip_file, config, kuma, jira>>

----------------------------------------------------------------------------
(* The manifests.  A document is a sequence of lines; a line is              *)
(* [key, open, val]: key names the YAML key or template statement of the     *)
(* line, open is the number of opening braces its templating expression is   *)
(* written with in the output (0 when the line has none), and val is the     *)
(* text the line carries.                                                    *)

Line(key, open, val) == [key |-> key, open |-> open, val |-> val]

\* The braces a literal of an f-string leaves in the output: "{{" is the
\* escape for one brace.
FString(braces) == braces \div 2

\* The braces a literal of a plain string leaves in the output.
Plain(braces) == braces

HasKey(doc, key) == \E i \in 1..Len(doc) : doc[i].key = key

\* The values of the lines of doc with this key, in order.
ValuesOf(doc, key) ==
    LET idx == {i \in 1..Len(doc) : doc[i].key = key}
        RECURSIVE Collect(_)
        Collect(i) ==
            IF i > Len(doc) THEN <<>>
            ELSE (IF i \in idx THEN <<doc[i].val>> ELSE <<>>) \o Collect(i + 1)
    IN  Collect(1)

DefaultCnpgInstances == 3

DefaultWorkerReplicas == 3

DefaultWorkerThreads == 4

\* Lines 179-181 (and 749-751): the image reference split at its last colon.
ImageRepo(image) == RSplit1(image, ":")[1]

ImageTag(image) ==
    LET image_parts == RSplit1(image, ":")
    IN  IF Len(image_parts) > 1 THEN image_parts[2] ELSE <<"l", "a", "t", "e", "s", "t">>

\* Lines 183-185: the host part of the TLS secret name.
SecretHost(fqdn) ==
    IF Contains(fqdn, T_k8s) THEN Replace(fqdn, T_k8s, <<>>) ELSE SplitFirst(fqdn, ".")

\* Lines 187-206: the base section of values.yaml.
ValuesBase(ac) ==
    LET fqdn == ac["domain"].s
        image == ac["image"].s
    IN  << Line("replicaCount", 0, Str(ac["replicas"])),
           Line("webapp", 0, <<>>),
           Line("webapp.name", 0, Str(ac["app_name"])),
           Line("webapp.group", 0, Str(ac["app_name"])),
           Line("webapp.path", 0, <<"/">>),
           Line("webapp.tls.fqdn", 0, fqdn),
           Line("webapp.tls.secretName", 0, <<"i", "n", "c", "o", "m", "m", "o", "n", "-", "c", "e", "r", "t", "-">> \o SecretHost(fqdn)),
           Line("webapp.container.image", 0, ImageRepo(image) \o <<":">> \o ImageTag(image)),
           Line("webapp.container.port", 0, Str(ac["port"])),
           Line("webapp.container.memory", 0, <<"1", "G">>),
           Line("webapp.container.cpu", 0, <<"2">>) >>

\* Mutant of ValuesIngress: the access value is always external.
ValuesIngressExternalMutant(ac) ==
    IF Truthy(ac["enable_ingress"])
    THEN << Line("ingress", 0, <<>>),
            Line("ingress.enabled", 0, T_true),
            Line("ingress.access", 0, T_external) >>
    ELSE <<>>

\* Mutant of ValuesIngress: the section is written whenever the key is in
\* app_config, whatever its value.
ValuesIngressMutant(ac) ==
    IF ac["enable_ingress"].t # "absent"
    THEN << Line("ingress", 0, <<>>),
            Line("ingress.enabled", 0, T_true),
            Line("ingress.access", 0, Str(Get(ac, "ingress_type", PyStr(T_external)))) >>
    ELSE <<>>

\* Lines 208-215
ValuesIngress(ac) ==
    IF Truthy(ac["enable_ingress"])
    THEN << Line("ingress", 0, <<>>),
            Line("ingress.enabled", 0, T_true),
            Line("ingress.access", 0, Str(Get(ac, "ingress_type", PyStr(T_external)))) >>
    ELSE <<>>

\* Lines 217-241
ValuesCnpg(addons, cfg) ==
    IF InList("cnpg", addons)
    THEN << Line("cnpg", 0, <<>>),
            Line("cnpg.enabled", 0, T_true),
            Line("cnpg.instances", 0,
                 Str(Get(cfg, "cnpg_instances", PyInt(DefaultCnpgInstances)))),
            Line("cnpg.storage.size", 0, Str(Get(cfg, "cnpg_storage_size", PyStr(<<"2", "0", "G", "i">>)))),
            Line("cnpg.backup.enabled", 0,
                 Lower(Str(Get(cfg, "cnpg_backup_enabled", PyBool(FALSE))))),
            Line("cnpg.backup.retentionPolicy", 0, <<"3", "0", "d">>),
            Line("cnpg.appUser.owner", 0, Str(Get(cfg, "cnpg_app_owner", PyStr(<<"a", "p", "p", "_", "u", "s", "e", "r">>)))),
            Line("cnpg.appUser.secretPath", 0,
                 Str(Get(cfg, "cnpg_app_secret_path", PyStr(<<"s", "e", "c", "r", "e", "t", "/", "d", "a", "t", "a", "/", "m", "y", "a", "p", "p", "/", "d", "b">>)))),
            Line("cnpg.appUser.passwordKey", 0,
                 Str(Get(cfg, "cnpg_app_password_key", PyStr(<<"p", "a", "s", "s", "w", "o", "r", "d">>)))),
            Line("cnpg.superUser.enabled", 0,
                 Lower(Str(Get(cfg, "cnpg_enable_superuser", PyBool(FALSE))))),
            Line("cnpg.superUser.secretPath", 0,
                 Str(Get(cfg, "cnpg_superuser_secret_path",
                         PyStr(<<"s", "e", "c", "r", "e", "t", "/", "d", "a", "t", "a", "/", "m", "y", "a", "p", "p", "/", "d", "b", "-", "s", "u", "p", "e", "r", "u", "s", "e", "r">>)))),
            Line("cnpg.superUser.usernameKey", 0,
                 Str(Get(cfg, "cnpg_superuser_username_key", PyStr(<<"u", "s", "e", "r", "n", "a", "m", "e">>)))),
            Line("cnpg.superUser.passwordKey", 0,
                 Str(Get(cfg, "cnpg_superuser_password_key", PyStr(<<"p", "a", "s", "s", "w", "o", "r", "d">>)))) >>
    ELSE <<>>

\* Lines 243-255
ValuesDask(addons, cfg) ==
    IF InList("dask", addons)
    THEN << Line("dask", 0, <<>>),
            Line("dask.enabled", 0, T_true),
            Line("dask.scheduler.port", 0, <<"8", "7", "8", "6">>),
            Line("dask.scheduler.dashboardPort", 0, <<"8", "7", "8", "7">>),
            Line("dask.worker.replicas", 0,
                 Str(Get(cfg, "worker_replicas", PyInt(DefaultWorkerReplicas)))),
            Line("dask.worker.threads", 0,
                 Str(Get(cfg, "worker_threads", PyInt(DefaultWorkerThreads)))),
            Line("dask.worker.memory", 0, Str(Get(cfg, "worker_memory", PyStr(<<"4", "G", "i">>)))) >>
    ELSE <<>>

\* Lines 257-266
ValuesPersistence(addons, cfg) ==
    IF InList("persistence", addons)
    THEN << Line("persistence", 0, <<>>),
            Line("persistence.enabled", 0, T_true),
            Line("persistence.storageClass", 0, <<"c", "e", "p", "h", "-", "k", "u", "b", "e", "p", "v">>),
            Line("persistence.accessMode", 0,
                 Str(Get(cfg, "pv_access_mode", PyStr(<<"R", "e", "a", "d", "W", "r", "i", "t", "e", "O", "n", "c", "e">>)))),
            Line("persistence.size", 0, Str(Get(cfg, "pv_storage_size", PyStr(<<"1", "0", "G", "i">>)))),
            Line("persistence.mountPath", 0, Str(Get(cfg, "pv_mount_path", PyStr(<<"/", "d", "a", "t", "a">>)))) >>
    ELSE <<>>

\* Lines 268-278
ValuesNfs(addons, cfg) ==
    IF InList("nfs", addons)
    THEN << Line("nfs", 0, <<>>),
            Line("nfs.enabled", 0, T_true),
            Line("nfs.server", 0, Str(Get(cfg, "nfs_server", PyStr(<<"n", "f", "s", ".", "e", "x", "a", "m", "p", "l", "e", ".", "c", "o", "m">>)))),
            Line("nfs.path", 0, Str(Get(cfg, "nfs_path", PyStr(<<"/", "e", "x", "p", "o", "r", "t", "/", "d", "a", "t", "a">>)))),
            Line("nfs.mountPath", 0, Str(Get(cfg, "nfs_mount_path", PyStr(<<"/", "m", "n", "t", "/", "n", "f", "s">>)))),
            Line("nfs.readOnly", 0, Lower(Str(Get(cfg, "nfs_readonly", PyBool(FALSE))))) >>
    ELSE <<>>

\* Lines 280-288
ValuesExternalSecrets(addons, cfg) ==
    IF InList("external_secrets", addons)
    THEN << Line("externalSecrets", 0, <<>>),
            Line("externalSecrets.enabled", 0, T_true),
            Line("externalSecrets.secretPath", 0,
                 Str(Get(cfg, "secret_path", PyStr(<<"s", "e", "c", "r", "e", "t", "/", "d", "a", "t", "a", "/", "m", "y", "a", "p", "p">>)))),
            Line("externalSecrets.backend", 0, <<"v", "a", "u", "l", "t">>),
            Line("externalSecrets.vaultUrl", 0, <<"h", "t", "t", "p", "s", ":", "/", "/", "b", "a", "o", ".", "k", "8", "s", ".", "u", "c", "a", "r", ".", "e", "d", "u">>) >>
    ELSE <<>>

\* generate_modular_values: values.yaml, section after section.
generate_modular_values(ac, addons, cfg) ==
    ValuesBase(ac) \o ValuesIngress(ac) \o ValuesCnpg(addons, cfg)
    \o ValuesDask(addons, cfg) \o ValuesPersistence(addons, cfg)
    \o ValuesNfs(addons, cfg) \o ValuesExternalSecrets(addons, cfg)

----------------------------------------------------------------------------
(* generate_base_deployment *)

\* Lines 301-304 and 309-314: the volume_mounts list.
VolumeMounts(addons, cfg) ==
    (IF InList("persistence", addons)
     THEN << Line("volumeMounts.name", 0, <<"d", "a", "t", "a">>),
             Line("volumeMounts.mountPath", 0,
                  Str(Get(cfg, "pv_mount_path", PyStr(<<"/", "d", "a", "t", "a">>)))) >>
     ELSE <<>>)
    \o
    (IF InList("nfs", addons)
     THEN << Line("volumeMounts.name", 0, <<"n", "f", "s">>),
             Line("volumeMounts.mountPath", 0,
                  Str(Get(cfg, "nfs_mount_path", PyStr(<<"/", "m", "n", "t", "/", "n", "f", "s">>)))) >>
          \o (IF Truthy(Get(cfg, "nfs_readonly", PyBool(FALSE)))
              THEN << Line("volumeMounts.readOnly", 0, T_true) >>
              ELSE <<>>)
     ELSE <<>>)

\* Mutant of Volumes: the nfs volume names the claim of the persistence
\* add-on.
VolumesMutant(addons) ==
    (IF InList("persistence", addons)
     THEN << Line("volumes.name", 0, <<"d", "a", "t", "a">>),
             Line("volumes.claimName", Plain(2), <<"-", "p", "v", "c">>) >>
     ELSE <<>>)
    \o
    (IF InList("nfs", addons)
     THEN << Line("volumes.name", 0, <<"n", "f", "s">>),
             Line("volumes.claimName", Plain(2), <<"-", "p", "v", "c">>) >>
     ELSE <<>>)

\* Lines 305-307 and 315-317: the volumes list, of plain strings.
Volumes(addons) ==
    (IF InList("persistence", addons)
     THEN << Line("volumes.name", 0, <<"d", "a", "t", "a">>),
             Line("volumes.claimName", Plain(2), <<"-", "p", "v", "c">>) >>
     ELSE <<>>)
    \o
    (IF InList("nfs", addons)
     THEN << Line("volumes.name", 0, <<"n", "f", "s">>),
             Line("volumes.claimName", Plain(2), <<"-", "n", "f", "s", "-", "p", "v", "c">>) >>
     ELSE <<>>)

\* Mutant of EnvFrom: the secret is referenced whenever any add-on is
\* enabled.
EnvFromMutant(addons) ==
    IF addons # <<>>
    THEN << Line("envFrom.secretRef.name", Plain(2), <<"-", "e", "x", "t", "e", "r", "n", "a", "l", "-", "s", "e", "c", "r", "e", "t">>) >>
    ELSE <<>>

\* Lines 319-321: the env_from list, of plain strings.
EnvFrom(addons) ==
    IF InList("external_secrets", addons)
    THEN << Line("envFrom.secretRef.name", Plain(2), <<"-", "e", "x", "t", "e", "r", "n", "a", "l", "-", "s", "e", "c", "r", "e", "t">>) >>
    ELSE <<>>

\* Lines 323-377: the manifest.  The head (lines 328-351) and the envFrom and
\* volumeMounts and volumes blocks are f-strings, the resources block
\* (lines 363-370) is a plain string.
generate_base_deployment(ac, addons, cfg) ==
    LET volume_mounts == VolumeMounts(addons, cfg)
        volumes == Volumes(addons)
        env_from == EnvFrom(addons)
    IN  << Line("apiVersion", 0, <<"a", "p", "p", "s", "/", "v", "1">>),
           Line("kind", 0, <<"D", "e", "p", "l", "o", "y", "m", "e", "n", "t">>),
           Line("metadata.name", FString(4), <<>>),
           Line("metadata.labels", FString(4), <<>>),
           Line("spec.replicas", FString(2), <<>>),
           Line("spec.selector.matchLabels", FString(2), <<>>),
           Line("spec.template.metadata.labels", FString(2), <<>>),
           Line("container.name", FString(2), <<>>),
           Line("container.image", FString(2), <<>>),
           Line("container.imagePullPolicy", 0, <<"I", "f", "N", "o", "t", "P", "r", "e", "s", "e", "n", "t">>),
           Line("container.ports.containerPort", FString(2), <<>>) >>
        \o (IF env_from # <<>> THEN <<Line("envFrom", 0, <<>>)>> \o env_from ELSE <<>>)
        \o (IF volume_mounts # <<>>
            THEN <<Line("volumeMounts", 0, <<>>)>> \o volume_mounts ELSE <<>>)
        \o << Line("resources.limits.cpu", Plain(2), <<>>),
              Line("resources.limits.memory", Plain(2), <<>>),
              Line("resources.requests.cpu", 0, <<"1", "0", "0", "m">>),
              Line("resources.requests.memory", 0, <<"1", "2", "8", "M", "i">>) >>
        \o (IF volumes # <<>> THEN <<Line("volumes", 0, <<>>)>> \o volumes ELSE <<>>)

----------------------------------------------------------------------------
(* The manifests without parameters, all plain strings.  Of each, the lines  *)
(* that name a resource or refer to one, and the conditions around them.     *)

\* Lines 166-174
generate_chart_yaml(app_name) ==
    << Line("apiVersion", 0, <<"v", "2">>),
       Line("name", 0, Str(app_name)),
       Line("type", 0, <<"a", "p", "p", "l", "i", "c", "a", "t", "i", "o", "n">>),
       Line("version", 0, <<"0", ".", "1", ".", "0">>) >>

\* helm_helpers.generate_helpers_tpl: the shared helper document that defines
\* the fullname helper every manifest includes.
generate_helpers_tpl ==
    << Line("define", Plain(2), <<"c", "h", "a", "r", "t", ".", "f", "u", "l", "l", "n", "a", "m", "e">>) >>

\* Lines 380-397
generate_service ==
    << Line("kind", 0, <<"S", "e", "r", "v", "i", "c", "e">>),
       Line("metadata.name", Plain(2), <<>>),
       Line("spec.ports.port", Plain(2), <<>>) >>

\* Lines 400-429
generate_ingress ==
    << Line("if", Plain(2), <<".", "V", "a", "l", "u", "e", "s", ".", "i", "n", "g", "r", "e", "s", "s", ".", "e", "n", "a", "b", "l", "e", "d">>),
       Line("kind", 0, <<"I", "n", "g", "r", "e", "s", "s">>),
       Line("metadata.name", Plain(2), <<>>),
       Line("spec.ingressClassName", Plain(2), <<"n", "g", "i", "n", "x", "-">>),
       Line("spec.tls.hosts", Plain(2), <<>>),
       Line("spec.tls.secretName", Plain(2), <<>>),
       Line("spec.rules.host", Plain(2), <<>>),
       Line("backend.service.name", Plain(2), <<>>),
       Line("end", Plain(2), <<>>) >>

\* Lines 432-480
generate_cnpg_cluster ==
    << Line("if", Plain(2), <<".", "V", "a", "l", "u", "e", "s", ".", "c", "n", "p", "g", ".", "e", "n", "a", "b", "l", "e", "d">>),
       Line("kind", 0, <<"C", "l", "u", "s", "t", "e", "r">>),
       Line("metadata.name", Plain(2), <<"-", "c", "n", "p", "g">>),
       Line("spec.instances", Plain(2), <<>>),
       Line("spec.storage.size", Plain(2), <<>>),
       Line("if", Plain(2), <<".", "V", "a", "l", "u", "e", "s", ".", "c", "n", "p", "g", ".", "s", "u", "p", "e", "r", "U", "s", "e", "r", ".", "e", "n", "a", "b", "l", "e", "d">>),
       Line("superuserSecret.name", Plain(2), <<"-", "s", "u", "p", "e", "r", "u", "s", "e", "r">>),
       Line("end", Plain(2), <<>>),
       Line("bootstrap.initdb.secret.name", Plain(2), <<"-", "a", "p", "p", "-", "u", "s", "e", "r">>),
       Line("if", Plain(2), <<".", "V", "a", "l", "u", "e", "s", ".", "c", "n", "p", "g", ".", "b", "a", "c", "k", "u", "p", ".", "e", "n", "a", "b", "l", "e", "d">>),
       Line("backup.retentionPolicy", Plain(2), <<>>),
       Line("end", Plain(2), <<>>),
       Line("end", Plain(2), <<>>) >>

\* Lines 483-509
generate_cnpg_app_user_secret ==
    << Line("if", Plain(2), <<".", "V", "a", "l", "u", "e", "s", ".", "c", "n", "p", "g", ".", "e", "n", "a", "b", "l", "e", "d">>),
       Line("kind", 0, <<"E", "x", "t", "e", "r", "n", "a", "l", "S", "e", "c", "r", "e", "t">>),
       Line("metadata.name", Plain(2), <<"-", "a", "p", "p", "-", "u", "s", "e", "r", "-", "e", "s", "o", "s">>),
       Line("spec.target.name", Plain(2), <<"-", "a", "p", "p", "-", "u", "s", "e", "r">>),
       Line("end", Plain(2), <<>>) >>

\* Lines 512-539
generate_cnpg_superuser_secret ==
    << Line("if", Plain(2), <<"a", "n", "d", " ", ".", "V", "a", "l", "u", "e", "s", ".", "c", "n", "p", "g", ".", "e", "n", "a", "b", "l", "e", "d", " ", ".", "V", "a", "l", "u", "e", "s", ".", "c", "n", "p", "g", ".", "s", "u", "p", "e", "r", "U", "s", "e", "r", ".", "e", "n", "a", "b", "l", "e", "d">>),
       Line("kind", 0, <<"E", "x", "t", "e", "r", "n", "a", "l", "S", "e", "c", "r", "e", "t">>),
       Line("metadata.name", Plain(2), <<"-", "s", "u", "p", "e", "r", "u", "s", "e", "r", "-", "e", "s", "o", "s">>),
       Line("spec.target.name", Plain(2), <<"-", "s", "u", "p", "e", "r", "u", "s", "e", "r">>),
       Line("end", Plain(2), <<>>) >>

\* Lines 542-575
generate_dask_scheduler ==
    << Line("if", Plain(2), <<".", "V", "a", "l", "u", "e", "s", ".", "d", "a", "s", "k", ".", "e", "n", "a", "b", "l", "e", "d">>),
       Line("kind", 0, <<"D", "e", "p", "l", "o", "y", "m", "e", "n", "t">>),
       Line("metadata.name", Plain(2), <<"-", "d", "a", "s", "k", "-", "s", "c", "h", "e", "d", "u", "l", "e", "r">>),
       Line("end", Plain(2), <<>>) >>

\* Lines 578-601
generate_dask_scheduler_service ==
    << Line("if", Plain(2), <<".", "V", "a", "l", "u", "e", "s", ".", "d", "a", "s", "k", ".", "e", "n", "a", "b", "l", "e", "d">>),
       Line("kind", 0, <<"S", "e", "r", "v", "i", "c", "e">>),
       Line("metadata.name", Plain(2), <<"-", "d", "a", "s", "k", "-", "s", "c", "h", "e", "d", "u", "l", "e", "r">>),
       Line("end", Plain(2), <<>>) >>

\* Lines 604-642
generate_dask_workers ==
    << Line("if", Plain(2), <<".", "V", "a", "l", "u", "e", "s", ".", "d", "a", "s", "k", ".", "e", "n", "a", "b", "l", "e", "d">>),
       Line("kind", 0, <<"D", "e", "p", "l", "o", "y", "m", "e", "n", "t">>),
       Line("metadata.name", Plain(2), <<"-", "d", "a", "s", "k", "-", "w", "o", "r", "k", "e", "r", "s">>),
       Line("command.scheduler", Plain(2), <<"-", "d", "a", "s", "k", "-", "s", "c", "h", "e", "d", "u", "l", "e", "r">>),
       Line("end", Plain(2), <<>>) >>

\* Lines 645-662
generate_pvc ==
    << Line("if", Plain(2), <<".", "V", "a", "l", "u", "e", "s", ".", "p", "e", "r", "s", "i", "s", "t", "e", "n", "c", "e", ".", "e", "n", "a", "b", "l", "e", "d">>),
       Line("kind", 0, <<"P", "e", "r", "s", "i", "s", "t", "e", "n", "t", "V", "o", "l", "u", "m", "e", "C", "l", "a", "i", "m">>),
       Line("metadata.name", Plain(2), <<"-", "p", "v", "c">>),
       Line("end", Plain(2), <<>>) >>

\* Lines 665-693
generate_nfs_pv ==
    << Line("if", Plain(2), <<".", "V", "a", "l", "u", "e", "s", ".", "n", "f", "s", ".", "e", "n", "a", "b", "l", "e", "d">>),
       Line("kind", 0, <<"P", "e", "r", "s", "i", "s", "t", "e", "n", "t", "V", "o", "l", "u", "m", "e">>),
       Line("metadata.name", Plain(2), <<"-", "n", "f", "s", "-", "p", "v">>),
       Line("end", Plain(2), <<>>) >>

\* Lines 696-717
generate_nfs_pvc ==
    << Line("if", Plain(2), <<".", "V", "a", "l", "u", "e", "s", ".", "n", "f", "s", ".", "e", "n", "a", "b", "l", "e", "d">>),
       Line("kind", 0, <<"P", "e", "r", "s", "i", "s", "t", "e", "n", "t", "V", "o", "l", "u", "m", "e", "C", "l", "a", "i", "m">>),
       Line("metadata.name", Plain(2), <<"-", "n", "f", "s", "-", "p", "v", "c">>),
       Line("spec.volumeName", Plain(2), <<"-", "n", "f", "s", "-", "p", "v">>),
       Line("end", Plain(2), <<>>) >>

\* Lines 720-741
generate_external_secret ==
    << Line("if", Plain(2), <<".", "V", "a", "l", "u", "e", "s", ".", "e", "x", "t", "e", "r", "n", "a", "l", "S", "e", "c", "r", "e", "t", "s", ".", "e", "n", "a", "b", "l", "e", "d">>),
       Line("kind", 0, <<"E", "x", "t", "e", "r", "n", "a", "l", "S", "e", "c", "r", "e", "t">>),
       Line("metadata.name", Plain(2), <<"-", "e", "x", "t", "e", "r", "n", "a", "l", "-", "s", "e", "c", "r", "e", "t">>),
       Line("spec.target.name", Plain(2), <<"-", "e", "x", "t", "e", "r", "n", "a", "l", "-", "s", "e", "c", "r", "e", "t">>),
       Line("end", Plain(2), <<>>) >>

----------------------------------------------------------------------------
(* generate_modular_readme *)

\* Lines 765-791: components_list, one entry for each enabled add-on.
ReadmeComponents(addons, cfg) ==
    (IF InList("cnpg", addons)
     THEN << Line("component.cnpg", 0,
                  Str(Get(cfg, "cnpg_instances", PyInt(DefaultCnpgInstances)))) >>
     ELSE <<>>)
    \o (IF InList("dask", addons)
        THEN << Line("component.dask", 0,
                     Str(Get(cfg, "worker_replicas", PyInt(DefaultWorkerReplicas)))) >>
        ELSE <<>>)
    \o (IF InList("persistence", addons)
        THEN << Line("component.persistence", 0,
                     Str(Get(cfg, "pv_storage_size", PyStr(<<"1", "0", "G", "i">>)))) >>
        ELSE <<>>)
    \o (IF InList("nfs", addons)
        THEN << Line("component.nfs", 0,
                     IF Truthy(Get(cfg, "nfs_readonly", PyBool(FALSE)))
                     THEN <<"r", "e", "a", "d", "-", "o", "n", "l", "y">> ELSE <<"r", "e", "a", "d", "-", "w", "r", "i", "t", "e">>) >>
        ELSE <<>>)
    \o (IF InList("external_secrets", addons)
        THEN << Line("component.external_secrets", 0, <<"V", "a", "u", "l", "t", " ", "i", "n", "t", "e", "g", "r", "a", "t", "i", "o", "n">>) >>
        ELSE <<>>)

\* Lines 868-883: the sections of the add-ons.
ReadmeSections(addons, cfg) ==
    (IF InList("cnpg", addons)
     THEN << Line("section.cnpg", 0, <<"D", "a", "t", "a", "b", "a", "s", "e", " ", "C", "o", "n", "n", "e", "c", "t", "i", "o", "n">>) >>
     ELSE <<>>)
    \o (IF InList("nfs", addons) /\ Truthy(Get(cfg, "nfs_readonly", PyBool(FALSE)))
        THEN << Line("section.nfs", 0, <<"N", "F", "S", " ", "R", "e", "a", "d", "-", "O", "n", "l", "y", " ", "A", "c", "c", "e", "s", "s">>) >>
        ELSE <<>>)

\* Lines 885-942: the closing text, a plain string: its single-brace
\* expressions reach str.format as replacement fields.  val is the name
\* str.format looks up: the text of the expression up to its first dot.
ReadmeTail ==
    << Line("tasks.update", Plain(1), <<"a", "p", "p", "_", "n", "a", "m", "e">>),
       Line("tasks.scale", Plain(1), <<"a", "p", "p", "_", "n", "a", "m", "e">>),
       Line("tasks.logs", Plain(1), <<"a", "p", "p", "_", "n", "a", "m", "e">>),
       Line("tasks.top", Plain(1), <<"a", "p", "p", "_", "n", "a", "m", "e">>),
       Line("troubleshooting.describe", Plain(1), <<"a", "p", "p", "_", "n", "a", "m", "e">>),
       Line("troubleshooting.logs", Plain(1), <<"a", "p", "p", "_", "n", "a", "m", "e">>),
       Line("troubleshooting.ingress", Plain(1), <<"a", "p", "p", "_", "n", "a", "m", "e">>),
       Line("footer.generated", Plain(1), <<"d", "a", "t", "e", "t", "i", "m", "e">>) >>

\* Lines 744-942: the text handed to str.format.
ReadmeText(ac, addons, cfg) ==
    LET ingress_enabled == Truthy(ac["enable_ingress"])
        fqdn == IF ingress_enabled THEN Str(ac["domain"])
                ELSE Str(ac["app_name"]) \o T_k8s
        image == ac["image"].s
    IN  << Line("title", 0, Str(ac["app_name"])) >>
        \o (IF ingress_enabled THEN << Line("view_at", 0, fqdn) >> ELSE <<>>)
        \o << Line("deployed.application", 0, Str(ac["replicas"])) >>
        \o (IF ingress_enabled
            THEN << Line("deployed.ingress", 0, Str(Get(ac, "ingress_type", PyStr(T_external)))) >>
            ELSE <<>>)
        \o ReadmeComponents(addons, cfg)
        \o << Line("settings.replicaCount", 0, Str(ac["replicas"])),
              Line("settings.webapp.name", 0, Str(ac["app_name"])),
              Line("settings.webapp.tls.fqdn", 0, fqdn),
              Line("settings.webapp.container.image", 0,
                   ImageRepo(image) \o <<":">> \o ImageTag(image)),
              Line("settings.webapp.container.port", 0, Str(ac["port"])) >>
        \o (IF ingress_enabled
            THEN << Line("settings.ingress.access", 0,
                         Str(Get(ac, "ingress_type", PyStr(T_external)))) >>
            ELSE <<>>)
        \o ReadmeSections(addons, cfg)
        \o ReadmeTail

\* text.format(name=value): every replacement field of the text is looked up
\* among the keyword arguments; a name that is not one raises KeyError.
StrFormat(text, name, value) ==
    IF \A i \in 1..Len(text) : text[i].open = 1 => text[i].val = name
    THEN [ok |-> TRUE, err |-> "none",
          text |-> [i \in 1..Len(text) |->
                      IF text[i].open = 1 THEN Line(text[i].key, 0, value) ELSE text[i]]]
    ELSE [ok |-> FALSE, err |-> "KeyError", text |-> <<>>]

\* Line 944: return readme.format(app_name=app_name)
generate_modular_readme(ac, addons, cfg) ==
    StrFormat(ReadmeText(ac, addons, cfg), <<"a", "p", "p", "_", "n", "a", "m", "e">>, Str(ac["app_name"]))

----------------------------------------------------------------------------
(* generate_modular_chart *)

File(path, content) == [path |-> path, content |-> content]

\* files[path] = content on a dict that keeps insertion order.
Put(fs, path, content) ==
    IF \E i \in 1..Len(fs) : fs[i].path = path
    THEN [i \in 1..Len(fs) |-> IF fs[i].path = path THEN File(path, content) ELSE fs[i]]
    ELSE Append(fs, File(path, content))

Paths(fs) == {fs[i].path : i \in 1..Len(fs)}

\* files[path]
Content(fs, path) == fs[CHOOSE i \in 1..Len(fs) : fs[i].path = path].content

\* Mutant of CnpgFiles: the superuser fragment is written only when
\* cnpg_enable_superuser is set.
CnpgFilesMutant(addons, cfg) ==
    IF InList("cnpg", addons)
    THEN << File("templates/cnpg-cluster.yaml", generate_cnpg_cluster),
            File("templates/cnpg-app-user-secret.yaml", generate_cnpg_app_user_secret) >>
         \o (IF Truthy(Get(cfg, "cnpg_enable_superuser", PyBool(FALSE)))
             THEN << File("templates/cnpg-superuser-secret.yaml",
                          generate_cnpg_superuser_secret) >>
             ELSE <<>>)
    ELSE <<>>

\* Lines 140-143: the files of the cnpg add-on.
CnpgFiles(addons, cfg) ==
    IF InList("cnpg", addons)
    THEN << File("templates/cnpg-cluster.yaml", generate_cnpg_cluster),
            File("templates/cnpg-app-user-secret.yaml", generate_cnpg_app_user_secret),
            File("templates/cnpg-superuser-secret.yaml", generate_cnpg_superuser_secret) >>
    ELSE <<>>

\* Lines 136-138: the ingress manifest.
IngressFiles(ac) ==
    IF Truthy(ac["enable_ingress"])
    THEN << File("templates/ingress.yaml", generate_ingress) >>
    ELSE <<>>

\* Mutant of OtherAddonFiles: the claim of the nfs add-on is written to the
\* path of the claim of the persistence add-on.
OtherAddonFilesMutant(addons) ==
    (IF InList("dask", addons)
     THEN << File("templates/dask-scheduler-deployment.yaml", generate_dask_scheduler),
             File("templates/dask-scheduler-service.yaml", generate_dask_scheduler_service),
             File("templates/dask-workers-deployment.yaml", generate_dask_workers) >>
     ELSE <<>>)
    \o (IF InList("persistence", addons)
        THEN << File("templates/pvc.yaml", generate_pvc) >>
        ELSE <<>>)
    \o (IF InList("nfs", addons)
        THEN << File("templates/nfs-pv.yaml", generate_nfs_pv),
                File("templates/pvc.yaml", generate_nfs_pvc) >>
        ELSE <<>>)
    \o (IF InList("external_secrets", addons)
        THEN << File("templates/external-secret.yaml", generate_external_secret) >>
        ELSE <<>>)

\* Lines 145-158: the files of the other add-ons.
OtherAddonFiles(addons) ==
    (IF InList("dask", addons)
     THEN << File("templates/dask-scheduler-deployment.yaml", generate_dask_scheduler),
             File("templates/dask-scheduler-service.yaml", generate_dask_scheduler_service),
             File("templates/dask-workers-deployment.yaml", generate_dask_workers) >>
     ELSE <<>>)
    \o (IF InList("persistence", addons)
        THEN << File("templates/pvc.yaml", generate_pvc) >>
        ELSE <<>>)
    \o (IF InList("nfs", addons)
        THEN << File("templates/nfs-pv.yaml", generate_nfs_pv),
                File("templates/nfs-pvc.yaml", generate_nfs_pvc) >>
        ELSE <<>>)
    \o (IF InList("external_secrets", addons)
        THEN << File("templates/external-secret.yaml", generate_external_secret) >>
        ELSE <<>>)

\* Lines 120-158: the files mapping before the README is added.
TemplateFiles(ac, addons, cfg) ==
    << File("Chart.yaml", generate_chart_yaml(ac["app_name"])),
       File("values.yaml", generate_modular_values(ac, addons, cfg)),
       File("templates/_helpers.tpl", generate_helpers_tpl),
       File("templates/deployment.yaml", generate_base_deployment(ac, addons, cfg)),
       File("templates/service.yaml", generate_service) >>
    \o IngressFiles(ac)
    \o CnpgFiles(addons, cfg)
    \o OtherAddonFiles(addons)

\* Lines 120-158: every file but the README.
AssembleTemplates ==
    /\ pc = "assemble"
    /\ files' = TemplateFiles(app_config, enabled_addons, addon_config)
    /\ pc' = "readme"
    /\ UNCHANGED <<data, app_config, enabled_addons, addon_config, response, gh, zip_file, config, kuma, jira>>

\* Lines 160-163, and line 88 of generate_helm: the README, and the return of
\* the file set to the handler.  An exception leaves generate_modular_chart
\* and generate_helm, which catches nothing here.
GenerateReadme ==
    /\ pc = "readme"
    /\ LET readme == generate_modular_readme(app_config, enabled_addons, addon_config)
       IN  IF readme.ok
           THEN /\ files' = Put(files, "README.md", readme.text)
                /\ pc' = "output"
                /\ UNCHANGED response
           ELSE /\ response' = Unhandled(readme.err, "generate_modular_readme")
                /\ pc' = "done"
                /\ UNCHANGED files
    /\ UNCHANGED <<data, app_config, enabled_addons, addon_config, gh, zip_file, config, kuma, jira>>

Next ==
    \/ ExtractAppConfig
    \/ ExtractAddonConfig
    \/ Validate
    \/ AssembleTemplates
    \/ GenerateReadme

Spec == Init /\ [][Next]_vars

----------------------------------------------------------------------------
(* create_github_pr.  Its arguments files, app_config and enabled_addons are *)
(* held in the variables of these names; gh holds token and repo_url, the    *)
(* locals, and the remote repository:                                        *)
(*   existing  the paths present on the new branch (those of the base branch *)
(*             and those written since),                                     *)
(*   branch    whether the new branch has been created,                      *)
(*   log       the remote calls made, in order, each with its outcome,       *)
(*   pr        whether the pull request has been opened,                     *)
(*   result    what the call returned or raised.                             *)

T_github == <<"h", "t", "t", "p", "s", ":", "/", "/", "g", "i", "t", "h", "u", "b", ".", "c", "o", "m", "/">>

T_git == <<".", "g", "i", "t">>

\* s.rstrip(chars): the trailing characters that are in chars are removed.
RECURSIVE RStrip(_, _)
RStrip(s, chars) ==
    IF s = <<>> THEN s
    ELSE IF \E j \in 1..Len(chars) : chars[j] = s[Len(s)]
         THEN RStrip(SubSeq(s, 1, Len(s) - 1), chars)
         ELSE s

\* Line 1391: the repository path handed to the GitHub client.
RepoPath(repo_url) == RStrip(Replace(repo_url, T_github, <<>>), T_git)

\* The most files a file set handed to create_github_pr holds.
MaxFiles == 2

ValidAppConfig ==
    [k \in BaseKeys |->
        CASE k = "app_name" -> PyStr(T_app)
          [] k = "image" -> PyStr(T_img)
          [] k = "replicas" -> PyInt(DefaultReplicas)
          [] k = "port" -> PyInt(DefaultPort)
          [] k = "enable_ingress" -> PyBool(FALSE)
          [] k = "ingress_type" -> PyStr(T_external)
          [] OTHER -> PyStr(<<>>)]

SampleFiles ==
    << File("Chart.yaml", generate_chart_yaml(PyStr(T_app))),
       File("values.yaml", generate_modular_values(ValidAppConfig, <<>>, NoAddonConfig)),
       File("templates/service.yaml", generate_service),
       File("templates/_helpers.tpl", generate_helpers_tpl) >>

PRFilesIn == {SubSeq(SampleFiles, 1, n) : n \in 0..MaxFiles}

PRTokensIn == {PyNone, PyStr(<<>>), PyStr(<<"t">>)}

T_owner == <<"o", "/">>

PRRepoUrlsIn ==
    {PyNone, PyStr(<<"h", "t", "t", "p", ":", "/", "/", "x", "/">> \o T_owner \o <<"r">>)}
    \cup {PyStr(T_github \o T_owner \o name \o ext) :
             name \in {<<"r">>, <<"k", "i", "t">>, <<"a", "g">>},
             ext \in {<<>>, T_git}}

PRAddonListsIn == {l \in AddonListsIn : Len(l) <= 1}

NoResult == [kind |-> "none", err |-> "none", url |-> <<>>]

Raised(err) == [kind |-> "raised", err |-> err, url |-> <<>>]

Call(op, path, outcome) == [op |-> op, path |-> path, outcome |-> outcome]

InitPR ==
    /\ data = [f |-> EmptyDict, addons |-> <<>>]
    /\ pc = "create_github_pr"
    /\ app_config = ValidAppConfig
    /\ enabled_addons \in PRAddonListsIn
    /\ addon_config = NoAddonConfig
    /\ files \in PRFilesIn
    /\ response = NoResponse
    /\ \E token \in PRTokensIn, repo_url \in PRRepoUrlsIn, existing \in SUBSET Paths(files) :
          gh = [pc |-> "check_args", token |-> token, repo_url |-> repo_url,
                repo_path |-> <<>>, new_branch |-> <<>>, i |-> 1,
                existing |-> existing, branch |-> FALSE, log |-> <<>>,
                pr |-> FALSE, result |-> NoResult]
    /\ zip_file = NoZip
    /\ config = NoConfig
    /\ kuma = <<>>
    /\ jira = NoJira

\* What a call to the GitHub API may do.
Outcomes == {"ok", "GithubException", "ConnectionError"}

PRRaise(err) == [gh EXCEPT !.pc = "done", !.result = Raised(err)]

\* Lines 1387-1393: the arguments.
PRCheckArgs ==
    /\ gh.pc = "check_args"
    /\ gh' = IF ~Truthy(gh.token) \/ ~Truthy(gh.repo_url)
             THEN PRRaise("ValueError")
             ELSE IF StartsWith(gh.repo_url.s, T_github)
                  THEN [gh EXCEPT !.pc = "get_repo", !.repo_path = RepoPath(gh.repo_url.s)]
                  ELSE PRRaise("ValueError")
    /\ UNCHANGED <<data, pc, app_config, enabled_addons, addon_config, files, response, zip_file, config, kuma, jira>>

\* Lines 1395-1399: the client, the repository and the branch name.
PRGetRepo ==
    /\ gh.pc = "get_repo"
    /\ \E o \in Outcomes :
          gh' = IF o = "ok"
                THEN [gh EXCEPT !.pc = "get_git_ref",
                                !.new_branch = <<"a", "d", "d", "-", "h", "e", "l", "m", "-", "c", "h", "a", "r", "t", "-">> \o Str(app_config["app_name"]),
                                !.log = Append(@, Call("get_repo", "", o))]
                ELSE [PRRaise(o) EXCEPT !.log = Append(@, Call("get_repo", "", o))]
    /\ UNCHANGED <<data, pc, app_config, enabled_addons, addon_config, files, response, zip_file, config, kuma, jira>>

\* Line 1401: the head of the base branch.
PRGetGitRef ==
    /\ gh.pc = "get_git_ref"
    /\ \E o \in Outcomes :
          gh' = IF o = "ok"
                THEN [gh EXCEPT !.pc = "create_git_ref",
                                !.log = Append(@, Call("get_git_ref", "", o))]
                ELSE [PRRaise(o) EXCEPT !.log = Append(@, Call("get_git_ref", "", o))]
    /\ UNCHANGED <<data, pc, app_config, enabled_addons, addon_config, files, response, zip_file, config, kuma, jira>>

\* Mutant of AfterFile: the loop leaves before the last file.
AfterFileMutant(i) == IF i >= Len(files) THEN "addons_str" ELSE "get_contents"

\* After the branch, and after each file: the next file, or line 1423.
AfterFile(i) == IF i > Len(files) THEN "addons_str" ELSE "get_contents"

\* Line 1402: the new branch.
PRCreateGitRef ==
    /\ gh.pc = "create_git_ref"
    /\ \E o \in Outcomes :
          gh' = IF o = "ok"
                THEN [gh EXCEPT !.pc = AfterFile(1), !.i = 1, !.branch = TRUE,
                                !.log = Append(@, Call("create_git_ref", "", o))]
                ELSE [PRRaise(o) EXCEPT !.log = Append(@, Call("create_git_ref", "", o))]
    /\ UNCHANGED <<data, pc, app_config, enabled_addons, addon_config, files, response, zip_file, config, kuma, jira>>

\* Line 1407: does the file exist on the new branch?  A path that is not
\* there is a GithubException (404).
PRGetContents ==
    /\ gh.pc = "get_contents"
    /\ LET path == files[gh.i].path
       IN  \E o \in Outcomes :
             /\ o = "ok" => path \in gh.existing
             /\ gh' = CASE o = "ok" ->
                             [gh EXCEPT !.pc = "update_file",
                                        !.log = Append(@, Call("get_contents", path, o))]
                        [] o = "GithubException" ->
                             [gh EXCEPT !.pc = "create_file",
                                        !.log = Append(@, Call("get_contents", path, o))]
                        [] OTHER ->
                             [PRRaise(o) EXCEPT !.log = Append(@, Call("get_contents", path, o))]
    /\ UNCHANGED <<data, pc, app_config, enabled_addons, addon_config, files, response, zip_file, config, kuma, jira>>

\* Lines 1408-1414: update the file; a GithubException is caught by line 1415.
PRUpdateFile ==
    /\ gh.pc = "update_file"
    /\ LET path == files[gh.i].path
       IN  \E o \in Outcomes :
             gh' = CASE o = "ok" ->
                          [gh EXCEPT !.pc = AfterFile(gh.i + 1), !.i = @ + 1,
                                     !.log = Append(@, Call("update_file", path, o))]
                     [] o = "GithubException" ->
                          [gh EXCEPT !.pc = "create_file",
                                     !.log = Append(@, Call("update_file", path, o))]
                     [] OTHER ->
                          [PRRaise(o) EXCEPT !.log = Append(@, Call("update_file", path, o))]
    /\ UNCHANGED <<data, pc, app_config, enabled_addons, addon_config, files, response, zip_file, config, kuma, jira>>

\* Lines 1415-1421: create the file.  GitHub refuses to create a path that
\* exists.
PRCreateFile ==
    /\ gh.pc = "create_file"
    /\ LET path == files[gh.i].path
       IN  \E o \in Outcomes :
             /\ o = "ok" => path \notin gh.existing
             /\ gh' = IF o = "ok"
                      THEN [gh EXCEPT !.pc = AfterFile(gh.i + 1), !.i = @ + 1,
                                      !.existing = @ \cup {path},
                                      !.log = Append(@, Call("create_file", path, o))]
                      ELSE [PRRaise(o) EXCEPT !.log = Append(@, Call("create_file", path, o))]
    /\ UNCHANGED <<data, pc, app_config, enabled_addons, addon_config, files, response, zip_file, config, kuma, jira>>

\* Line 1423: the names of the enabled add-ons, looked up in the registry.
PRAddonsStr ==
    /\ gh.pc = "addons_str"
    /\ gh' = IF \A j \in 1..Len(enabled_addons) : enabled_addons[j] \in RegistryKeys
             THEN [gh EXCEPT !.pc = "create_pull"]
             ELSE PRRaise("KeyError")
    /\ UNCHANGED <<data, pc, app_config, enabled_addons, addon_config, files, response, zip_file, config, kuma, jira>>

\* Lines 1425-1436: the pull request.
PRCreatePull ==
    /\ gh.pc = "create_pull"
    /\ \E o \in Outcomes :
          gh' = IF o = "ok"
                THEN [gh EXCEPT !.pc = "done", !.pr = TRUE,
                                !.log = Append(@, Call("create_pull", "", o)),
                                !.result = [kind |-> "returned", err |-> "none",
                                            url |-> <<"p", "r", "_", "u", "r", "l">>]]
                ELSE [PRRaise(o) EXCEPT !.log = Append(@, Call("create_pull", "", o))]
    /\ UNCHANGED <<data, pc, app_config, enabled_addons, addon_config, files, response, zip_file, config, kuma, jira>>

NextPR ==
    \/ PRCheckArgs
    \/ PRGetRepo
    \/ PRGetGitRef
    \/ PRCreateGitRef
    \/ PRGetContents
    \/ PRUpdateFile
    \/ PRCreateFile
    \/ PRAddonsStr
    \/ PRCreatePull

SpecPR == InitPR /\ [][NextPR]_vars

----------------------------------------------------------------------------
(* Properties of a generation request (Spec) *)

\* generate_modular_chart has written every file but the README.
Assembled == pc \in {"readme", "output", "done"} /\ files # <<>>

ValuesDoc == Content(files, "values.yaml")

DeploymentDoc == Content(files, "templates/deployment.yaml")

IngressEnabled == Truthy(app_config["enable_ingress"])

SixBaseFiles == {"Chart.yaml", "values.yaml", "templates/_helpers.tpl",
                 "templates/deployment.yaml", "templates/service.yaml", "README.md"}

\* C1: generate_modular_chart is total: called with a non-empty app_name and
\* image, a domain when ingress is enabled, and registered add-ons only, it
\* never ends in an exception, the README step included.
C1_AssemblerTotal ==
    ( /\ files # <<>>
      /\ Truthy(app_config["app_name"]) /\ Truthy(app_config["image"])
      /\ (IngressEnabled => Truthy(app_config["domain"]))
      /\ \A j \in 1..Len(enabled_addons) : enabled_addons[j] \in RegistryKeys )
    => response.kind # "exception"

\* C2: with no add-on and no ingress enabled, the file set the assembler ends
\* with is exactly the six base files, and the deployment manifest has no
\* volumeMounts, volumes or envFrom block.
C2_SixBaseFiles ==
    ( /\ files # <<>> /\ pc \in {"output", "done"}
      /\ enabled_addons = <<>> /\ ~IngressEnabled )
    => /\ Paths(files) = SixBaseFiles
       /\ ~HasKey(DeploymentDoc, "volumeMounts")
       /\ ~HasKey(DeploymentDoc, "volumes")
       /\ ~HasKey(DeploymentDoc, "envFrom")

\* C3: a request whose app_name is empty, whose image is empty, or whose
\* ingress is enabled with an empty domain never gets past validation:
\* nothing is generated for it and it is answered with the 400 error.
C3_InvalidRejected ==
    ( /\ app_config # NoAppConfig
      /\ \/ ~Truthy(app_config["app_name"])
         \/ ~Truthy(app_config["image"])
         \/ (IngressEnabled /\ ~Truthy(app_config["domain"])) )
    => /\ pc \notin {"assemble", "readme", "output"}
       /\ files = <<>>
       /\ (pc = "done" /\ response.at # "extract_addons")
             => (response.kind = "json_error" /\ response.status = 400)

BoolText(b) == IF b THEN T_true ELSE T_false

C6_SecretName ==
    Assembled =>
        LET fqdn == app_config["domain"].s
            host == IF EndsWith(fqdn, T_k8s)
                    THEN SubSeq(fqdn, 1, Len(fqdn) - Len(T_k8s))
                    ELSE SplitFirst(fqdn, ".")
        IN  ValuesOf(ValuesDoc, "webapp.tls.secretName") = << <<"i", "n", "c", "o", "m", "m", "o", "n", "-", "c", "e", "r", "t", "-">> \o host >>

\* A numeric field that is absent, empty or not an integer.
Unusable(v) == v.t \in {"absent", "none"} \/ (v.t = "str" /\ ~IntOf(v).ok)

\* C7: a numeric add-on field that is absent, empty or not an integer never
\* makes the request fail, and values.yaml carries the default of the field.
C7_NumericDefaults ==
    /\ ~(response.kind = "exception" /\ response.at = "extract_addons")
    /\ Assembled =>
          /\ (InList("cnpg", enabled_addons) /\ Unusable(data.f["cnpg_instances"]))
                => ValuesOf(ValuesDoc, "cnpg.instances") = << IntText(DefaultCnpgInstances) >>
          /\ (InList("dask", enabled_addons) /\ Unusable(data.f["worker_replicas"]))
                => ValuesOf(ValuesDoc, "dask.worker.replicas") = << IntText(DefaultWorkerReplicas) >>
          /\ (InList("dask", enabled_addons) /\ Unusable(data.f["worker_threads"]))
                => ValuesOf(ValuesDoc, "dask.worker.threads") = << IntText(DefaultWorkerThreads) >>

\* What a boolean field of the request means: the text "true" is true, any
\* other text and a missing field are false.
Meant(v) == IF v.t = "str" THEN v.s = T_true ELSE Truthy(v)

\* C8: every boolean field of the request is coerced before it decides
\* anything: ingress is generated exactly when enable_ingress means true, and
\* each boolean of values.yaml is the literal of what its field means.
C8_BooleansCoerced ==
    Assembled =>
        /\ HasKey(ValuesDoc, "ingress") <=> Meant(data.f["enable_ingress"])
        /\ "templates/ingress.yaml" \in Paths(files) <=> Meant(data.f["enable_ingress"])
        /\ InList("cnpg", enabled_addons) =>
              /\ ValuesOf(ValuesDoc, "cnpg.backup.enabled") =
                    << BoolText(Meant(data.f["cnpg_backup_enabled"])) >>
              /\ ValuesOf(ValuesDoc, "cnpg.superUser.enabled") =
                    << BoolText(Meant(data.f["cnpg_enable_superuser"])) >>
        /\ InList("nfs", enabled_addons) =>
              ValuesOf(ValuesDoc, "nfs.readOnly") = << BoolText(Meant(data.f["nfs_readonly"])) >>

\* C9: with persistence and nfs both enabled the deployment manifest has
\* exactly two volumeMounts entries and two volumes entries, data (claim -pvc)
\* before nfs (claim -nfs-pvc); with one of them enabled it has one of each.
C9_VolumeEntries ==
    Assembled =>
        LET p == InList("persistence", enabled_addons)
            n == InList("nfs", enabled_addons)
            mounts == ValuesOf(DeploymentDoc, "volumeMounts.name")
            paths == ValuesOf(DeploymentDoc, "volumeMounts.mountPath")
            vols == ValuesOf(DeploymentDoc, "volumes.name")
            claims == ValuesOf(DeploymentDoc, "volumes.claimName")
        IN  /\ (p /\ n) =>
                  /\ mounts = << <<"d", "a", "t", "a">>, <<"n", "f", "s">> >> /\ Len(paths) = 2
                  /\ vols = << <<"d", "a", "t", "a">>, <<"n", "f", "s">> >>
                  /\ claims = << <<"-", "p", "v", "c">>, <<"-", "n", "f", "s", "-", "p", "v", "c">> >>
            /\ (p /\ ~n) =>
                  /\ mounts = << <<"d", "a", "t", "a">> >> /\ Len(paths) = 1
                  /\ vols = << <<"d", "a", "t", "a">> >> /\ claims = << <<"-", "p", "v", "c">> >>
            /\ (n /\ ~p) =>
                  /\ mounts = << <<"n", "f", "s">> >> /\ Len(paths) = 1
                  /\ vols = << <<"n", "f", "s">> >> /\ claims = << <<"-", "n", "f", "s", "-", "p", "v", "c">> >>

\* C9 witness: both volume add-ons are enabled and the manifest has two
\* volumes.
C9_Witness ==
    /\ Assembled
    /\ InList("persistence", enabled_addons) /\ InList("nfs", enabled_addons)
    /\ Len(ValuesOf(DeploymentDoc, "volumes.claimName")) = 2

\* C10: the file set has the entry templates/ingress.yaml and values.yaml has
\* the ingress section when ingress is enabled, and neither when it is not.
C10_IngressOmitted ==
    Assembled =>
        /\ "templates/ingress.yaml" \in Paths(files) <=> IngressEnabled
        /\ HasKey(ValuesDoc, "ingress") <=> IngressEnabled
        /\ HasKey(ValuesDoc, "ingress.access") <=> IngressEnabled

\* C10 witness: a file set with ingress disabled, next to add-on files.
C10_Witness ==
    /\ Assembled /\ ~IngressEnabled
    /\ "templates/pvc.yaml" \in Paths(files)
    /\ "templates/ingress.yaml" \notin Paths(files)
    /\ ~HasKey(ValuesDoc, "ingress")

----------------------------------------------------------------------------
(* Properties of create_github_pr (SpecPR) *)

RemoteWrites == {"create_git_ref", "update_file", "create_file", "create_pull"}

\* C4: a call whose enabled_addons holds an identifier that is no key of the
\* registry is rejected with an error before any branch or file is created
\* remotely.
C4_UnknownAddonRejected ==
    (\E j \in 1..Len(enabled_addons) : enabled_addons[j] \notin RegistryKeys)
    => /\ ~gh.branch
       /\ \A i \in 1..Len(gh.log) : gh.log[i].op \notin RemoteWrites
       /\ gh.pc = "done" => gh.result.kind = "raised"

----------------------------------------------------------------------------
(* Properties of the ingress access class *)

\* Line 412 as Helm renders it: the literal of ingressClassName followed by
\* the value ingress.access of values.yaml.
IngressClass(fs) ==
    ValuesOf(Content(fs, "templates/ingress.yaml"), "spec.ingressClassName")[1]
        \o ValuesOf(Content(fs, "values.yaml"), "ingress.access")[1]

\* The same app_config with the other of the two access types.
OtherAccess(ac) ==
    [ac EXCEPT !["ingress_type"] =
        IF ac["ingress_type"] = PyStr(T_internal) THEN PyStr(T_external) ELSE PyStr(T_internal)]

\* The lines of doc but those with this key.
Without(doc, key) == SelectSeq(doc, LAMBDA l : l.key # key)

\* C11: of two requests that differ only in ingress_type, external and
\* internal, the ingress class is nginx-external resp. nginx-internal, every
\* file but values.yaml is the same, and values.yaml differs in the access
\* line only.
C11_AccessOnly ==
    ( /\ Assembled /\ IngressEnabled
      /\ app_config["ingress_type"] \in {PyStr(T_internal), PyStr(T_external)} )
    => LET other == OtherAccess(app_config)
           fs2 == TemplateFiles(other, enabled_addons, addon_config)
           v2 == Content(fs2, "values.yaml")
       IN  /\ IngressClass(files) = <<"n", "g", "i", "n", "x", "-">> \o app_config["ingress_type"].s
           /\ IngressClass(fs2) = <<"n", "g", "i", "n", "x", "-">> \o other["ingress_type"].s
           /\ Paths(files) = Paths(fs2)
           /\ \A p \in Paths(files) \ {"values.yaml"} : Content(files, p) = Content(fs2, p)
           /\ Without(ValuesDoc, "ingress.access") = Without(v2, "ingress.access")
           /\ ValuesOf(ValuesDoc, "ingress.access") # ValuesOf(v2, "ingress.access")

\* C11 witness: an internal ingress, assembled next to add-on files or not,
\* whose class is nginx-internal.
C11_Witness ==
    /\ Assembled /\ IngressEnabled
    /\ app_config["ingress_type"] = PyStr(T_internal)
    /\ IngressClass(files) = <<"n", "g", "i", "n", "x", "-", "i", "n", "t", "e", "r", "n", "a", "l">>

----------------------------------------------------------------------------
(* create_zip *)

\* The character chr(0).
NUL == "NUL"

\* A character outside ASCII, U+00E9.
EAcute == "U+00E9"

NewLine == "\n"

\* str.encode('utf-8') on one character: what writestr stores of a str.
Utf8Char(c) ==
    IF \E i \in 1..26 : LowerCase[i] = c
    THEN << 96 + (CHOOSE i \in 1..26 : LowerCase[i] = c) >>
    ELSE IF IsDigit(c)
    THEN << 48 + DigitValue(c) >>
    ELSE CASE c = EAcute -> <<195, 169>>
           [] c = NewLine -> <<10>>
           [] c = " " -> <<32>>
           [] c = ":" -> <<58>>
           [] c = NUL -> <<0>>

RECURSIVE Utf8(_)
Utf8(s) == IF s = <<>> THEN <<>> ELSE Utf8Char(Head(s)) \o Utf8(Tail(s))

\* The name ZipInfo keeps of an archive name: what comes before its first
\* chr(0).
ZipInfoName(filename) ==
    IF \E i \in 1..Len(filename) : filename[i] = NUL
    THEN SubSeq(filename, 1,
                (CHOOSE i \in 1..Len(filename) :
                    filename[i] = NUL /\ \A j \in 1..(i - 1) : filename[j] # NUL) - 1)
    ELSE filename

\* Line 1379: f"{app_name}/{filepath}".  A key of the file set is kept as
\* one unit of the name.
ArcName(app_name, filepath) == Str(app_name) \o <<"/">> \o <<filepath>>

MaxZipFiles == 3

ZipAppNamesIn == {PyStr(T_app), PyStr(<<"a", "/", "b">>), PyStr(<<"x", NUL, "y">>)}

ZipTextsIn == {<<>>, <<"a", ":", " ", "1">> \o <<NewLine>>, <<"n", EAcute>>}

ZipPathsIn == {"Chart.yaml", "values.yaml", "templates/service.yaml", "README.md"}

\* The file sets drawn: dicts of at most MaxZipFiles keys, in any insertion
\* order.
ZipFilesIn ==
    UNION {{fs \in [1..n -> {File(p, t) : p \in ZipPathsIn, t \in ZipTextsIn}] :
              \A i, j \in 1..n : i # j => fs[i].path # fs[j].path} : n \in 0..MaxZipFiles}

ZipEntry(name, bytes) == [name |-> name, bytes |-> bytes]

InitZip ==
    /\ data = [f |-> EmptyDict, addons |-> <<>>]
    /\ pc = "create_zip"
    /\ \E app_name \in ZipAppNamesIn :
          app_config = [ValidAppConfig EXCEPT !["app_name"] = app_name]
    /\ enabled_addons = <<>>
    /\ addon_config = NoAddonConfig
    /\ files \in ZipFilesIn
    /\ response = NoResponse
    /\ gh = NoGh
    /\ zip_file = [pc |-> "open", entries |-> <<>>, i |-> 1, closed |-> FALSE,
                   pos |-> 0, returned |-> FALSE]
    /\ config = NoConfig
    /\ kuma = <<>>
    /\ jira = NoJira

\* Lines 1375-1377: the buffer, and the archive opened for writing on it.
ZipOpen ==
    /\ zip_file.pc = "open"
    /\ zip_file' = [zip_file EXCEPT !.pc = "writestr"]
    /\ UNCHANGED <<data, pc, app_config, enabled_addons, addon_config, files, response, gh, config, kuma, jira>>

\* Lines 1378-1379: one entry for the next item of the file set.
ZipWriteStr ==
    /\ zip_file.pc = "writestr"
    /\ zip_file.i <= Len(files)
    /\ LET f == files[zip_file.i]
           bytes == Utf8(f.content)
       IN  zip_file' =
              [zip_file EXCEPT
                  !.entries = Append(@, ZipEntry(ZipInfoName(ArcName(app_config["app_name"], f.path)),
                                                 bytes)),
                  !.pos = @ + Len(bytes) + 1,
                  !.i = @ + 1]
    /\ UNCHANGED <<data, pc, app_config, enabled_addons, addon_config, files, response, gh, config, kuma, jira>>

\* Line 1377, the end of the with block: the archive is closed.
ZipClose ==
    /\ zip_file.pc = "writestr"
    /\ zip_file.i > Len(files)
    /\ zip_file' = [zip_file EXCEPT !.pc = "seek", !.closed = TRUE, !.pos = @ + 1]
    /\ UNCHANGED <<data, pc, app_config, enabled_addons, addon_config, files, response, gh, config, kuma, jira>>

\* Lines 1381-1382: the buffer is rewound and returned.
ZipReturn ==
    /\ zip_file.pc = "seek"
    /\ zip_file' = [zip_file EXCEPT !.pc = "done", !.pos = 0, !.returned = TRUE]
    /\ UNCHANGED <<data, pc, app_config, enabled_addons, addon_config, files, response, gh, config, kuma, jira>>

NextZip ==
    \/ ZipOpen
    \/ ZipWriteStr
    \/ ZipClose
    \/ ZipReturn

SpecZip == InitZip /\ [][NextZip]_vars

----------------------------------------------------------------------------
(* Properties of create_zip (SpecZip) *)

\* bytes.decode('utf-8'): what unpacking reads of an entry.
RECURSIVE Utf8Decode(_)
Utf8Decode(b) ==
    IF b = <<>> THEN <<>>
    ELSE IF b[1] = 195 THEN <<EAcute>> \o Utf8Decode(SubSeq(b, 3, Len(b)))
    ELSE IF b[1] \in 97..122 THEN <<LowerCase[b[1] - 96]>> \o Utf8Decode(Tail(b))
    ELSE IF b[1] \in 48..57 THEN <<Digits[b[1] - 47]>> \o Utf8Decode(Tail(b))
    ELSE (CASE b[1] = 10 -> <<NewLine>>
            [] b[1] = 32 -> <<" ">>
            [] b[1] = 58 -> <<":">>
            [] b[1] = 0 -> <<NUL>>) \o Utf8Decode(Tail(b))

\* C12: unpacking the archive create_zip returns yields one entry for each
\* key of the file set, named <app-name>/<key>, with the content of the key,
\* and no other entry.
C12_ZipRoundTrip ==
    zip_file.pc = "done" =>
        LET entries == zip_file.entries
            dir == Str(app_config["app_name"]) \o <<"/">>
        IN  /\ zip_file.closed /\ zip_file.pos = 0
            /\ Len(entries) = Len(files)
            /\ \A k \in 1..Len(files) :
                  LET named == {e \in 1..Len(entries) : entries[e].name = dir \o <<files[k].path>>}
                  IN  /\ Cardinality(named) = 1
                      /\ \A e \in named : Utf8Decode(entries[e].bytes) = files[k].content
            /\ \A e \in 1..Len(entries) :
                  /\ Len(entries[e].name) > Len(dir)
                  /\ SubSeq(entries[e].name, 1, Len(dir)) = dir

----------------------------------------------------------------------------
(* Properties of the steps of create_github_pr (SpecPR) *)

\* A remote step that failed: a call that raised, but for the read of a file
\* that answers with the GithubException of a path that is not there.
FailedStep(c) ==
    \/ c.outcome = "ConnectionError"
    \/ c.outcome = "GithubException" /\ c.op # "get_contents"

\* C13: the failure of a remote step aborts the publish: no remote write is
\* attempted after the failed step, and the call ends by raising.
C13_FailureAborts ==
    \A i \in 1..Len(gh.log) :
        FailedStep(gh.log[i]) =>
            /\ \A j \in (i + 1)..Len(gh.log) : gh.log[j].op \notin RemoteWrites
            /\ gh.pc = "done" => gh.result.kind = "raised"

\* The calls of the log that write a file.
FileWrites(log) == SelectSeq(log, LAMBDA c : c.op \in {"update_file", "create_file"})

\* The calls of the log but the lookup of the repository and the reads of
\* files.
RemoteSteps(log) == SelectSeq(log, LAMBDA c : c.op \notin {"get_repo", "get_contents"})

BadArguments ==
    \/ ~Truthy(gh.token)
    \/ ~Truthy(gh.repo_url)
    \/ ~StartsWith(gh.repo_url.s, T_github)

\* C14: a run that returns has resolved the base branch, created the branch
\* add-helm-chart-<app-name>, written each file of the file set once, in
\* order, by update when the file was found on the new branch and by create
\* otherwise, and opened the pull request last; no pull request is opened
\* before every file is written, and no remote call is made with a missing
\* or invalid token or repository URL.
C14_StepOrder ==
    /\ gh.result.kind = "returned" =>
          LET steps == RemoteSteps(gh.log)
              writes == FileWrites(gh.log)
          IN  /\ Len(steps) = Len(files) + 3
              /\ steps[1].op = "get_git_ref"
              /\ steps[2].op = "create_git_ref"
              /\ gh.new_branch = <<"a", "d", "d", "-", "h", "e", "l", "m", "-", "c", "h", "a", "r", "t", "-">> \o Str(app_config["app_name"])
              /\ \A k \in 1..Len(files) : steps[k + 2] = writes[k]
              /\ steps[Len(steps)].op = "create_pull"
              /\ Len(writes) = Len(files)
              /\ \A k \in 1..Len(files) :
                    /\ writes[k].path = files[k].path
                    /\ writes[k].outcome = "ok"
                    /\ writes[k].op = "update_file"
                          <=> Call("get_contents", files[k].path, "ok") \in
                                 {gh.log[j] : j \in 1..Len(gh.log)}
    /\ \A i \in 1..Len(gh.log) :
          gh.log[i].op = "create_pull" =>
              \A k \in 1..Len(files) :
                  \E j \in 1..(i - 1) :
                      /\ gh.log[j].op \in {"update_file", "create_file"}
                      /\ gh.log[j].path = files[k].path
                      /\ gh.log[j].outcome = "ok"
    /\ BadArguments => gh.log = <<>>

\* C14 witness: a run that returned after one file was updated and another
\* created.
C14_Witness ==
    /\ gh.result.kind = "returned"
    /\ \E i, j \in 1..Len(gh.log) :
          gh.log[i].op = "update_file" /\ gh.log[j].op = "create_file"

----------------------------------------------------------------------------
(* status (main/views.py) *)

MaxPages == 2

MaxMonitors == 2

\* What the GET of a status page may give (lines 37-48): an exception such
\* as a timeout, a status code other than 200, a page without preloadData, a
\* preloadData that json.loads refuses, or the groups of monitors.
PageFetches == {"exception", "non200", "no_match", "bad_json", "ok"}

\* What the GET of the badge of a monitor may give (lines 61-71): an
\* exception, a status code other than 200, or a badge text that holds >Up<,
\* holds >Down<, or neither.
BadgeFetches == {"exception", "non200", "Up", "Down", "other"}

\* The answers of the server for one page; the monitors of all groups of
\* publicGroupList, in the order of lines 54-55.
KumaPagesIn ==
    {[fetch |-> f, monitors |-> <<>>] : f \in PageFetches \ {"ok"}}
    \cup UNION {{[fetch |-> "ok", monitors |-> ms] : ms \in [1..n -> BadgeFetches]} :
                   n \in 0..MaxMonitors}

\* A page of status_monitors.yaml as yaml.safe_load gives it: neither status
\* nor monitors is set.
YamlPage == [status |-> "absent", monitors |-> <<>>]

InitStatus ==
    /\ data = [f |-> EmptyDict, addons |-> <<>>]
    /\ pc = "status"
    /\ app_config = NoAppConfig
    /\ enabled_addons = <<>>
    /\ addon_config = NoAddonConfig
    /\ files = <<>>
    /\ response = NoResponse
    /\ gh = NoGh
    /\ zip_file = NoZip
    /\ kuma \in UNION {[1..n -> KumaPagesIn] : n \in 1..MaxPages}
    /\ config = [pc |-> "page", p |-> 1, m |-> 1,
                 status_pages |-> [q \in 1..Len(kuma) |-> YamlPage],
                 last_check |-> FALSE, rendered |-> FALSE]
    /\ jira = NoJira

SetStatus(p, st) == [config EXCEPT !.status_pages[p].status = st]

\* Lines 33-52 and 82-91: the page is fetched and its preloadData parsed.
\* Every exception is caught by line 87.
StatusFetchPage ==
    /\ config.pc = "page"
    /\ config.p <= Len(config.status_pages)
    /\ LET p == config.p
       IN  config' =
              IF kuma[p].fetch = "ok"
              THEN [config EXCEPT !.status_pages[p] = [status |-> "UP", monitors |-> <<>>],
                                  !.pc = "badge", !.m = 1]
              ELSE [SetStatus(p, "UNKNOWN") EXCEPT !.p = @ + 1]
    /\ UNCHANGED <<data, pc, app_config, enabled_addons, addon_config, files, response, gh,
                   zip_file, kuma, jira>>

\* Lines 66-71: the status read off the text of a badge.
MonitorStatus(badge) ==
    CASE badge = "Up" -> "UP"
      [] badge = "Down" -> "DOWN"
      [] OTHER -> "UNKNOWN"

\* Lines 56-81 and 87-91: the badge of the next monitor.  An exception leaves
\* the loops of the page for line 87.
StatusFetchBadge ==
    /\ config.pc = "badge"
    /\ config.m <= Len(kuma[config.p].monitors)
    /\ LET p == config.p
           badge == kuma[p].monitors[config.m]
       IN  config' =
              CASE badge = "exception" ->
                      [SetStatus(p, "UNKNOWN") EXCEPT !.pc = "page", !.p = @ + 1]
                [] badge = "non200" ->
                      [SetStatus(p, "UNKNOWN") EXCEPT !.m = @ + 1]
                [] OTHER ->
                      [config EXCEPT
                          !.status_pages[p].monitors = Append(@, MonitorStatus(badge)),
                          !.status_pages[p].status =
                              IF MonitorStatus(badge) = "DOWN" THEN "DOWN" ELSE @,
                          !.m = @ + 1]
    /\ UNCHANGED <<data, pc, app_config, enabled_addons, addon_config, files, response, gh,
                   zip_file, kuma, jira>>

\* Lines 54-55 and 33: no monitor is left, the next page.
StatusNextPage ==
    /\ config.pc = "badge"
    /\ config.m > Len(kuma[config.p].monitors)
    /\ config' = [config EXCEPT !.pc = "page", !.p = @ + 1]
    /\ UNCHANGED <<data, pc, app_config, enabled_addons, addon_config, files, response, gh,
                   zip_file, kuma, jira>>

\* Lines 93-95: last_check, and the template rendered.
StatusRender ==
    /\ config.pc = "page"
    /\ config.p > Len(config.status_pages)
    /\ config' = [config EXCEPT !.pc = "done", !.last_check = TRUE, !.rendered = TRUE]
    /\ UNCHANGED <<data, pc, app_config, enabled_addons, addon_config, files, response, gh,
                   zip_file, kuma, jira>>

NextStatus ==
    \/ StatusFetchPage
    \/ StatusFetchBadge
    \/ StatusNextPage
    \/ StatusRender

SpecStatus == InitStatus /\ [][NextStatus]_vars

----------------------------------------------------------------------------
(* Properties of status (SpecStatus) *)

\* The pages the loop of line 33 is done with.
PolledPages == 1..(config.p - 1)

Has(seq, x) == \E i \in 1..Len(seq) : seq[i] = x

\* C15: a page whose fetch succeeded is DOWN when one of its per-monitor
\* results is DOWN, wherever that monitor stands and whatever the other
\* monitors gave, and is UP when every monitor gave a result and none is
\* DOWN.
C15_DownIfAnyDown ==
    \A p \in PolledPages :
        kuma[p].fetch = "ok" =>
            LET page == config.status_pages[p]
            IN  /\ Has(page.monitors, "DOWN") => page.status = "DOWN"
                /\ (Len(page.monitors) = Len(kuma[p].monitors) /\ ~Has(page.monitors, "DOWN"))
                      => page.status = "UP"

\* The badges the loop asked for on a polled page: those up to the first
\* exception.
RECURSIVE AskedBadges(_)
AskedBadges(ms) ==
    IF ms = <<>> THEN <<>>
    ELSE IF Head(ms) = "exception" THEN <<"exception">>
    ELSE <<Head(ms)>> \o AskedBadges(Tail(ms))

\* A transport failure, timeout or non-success response while the page was
\* polled.
PollFailed(k) ==
    \/ k.fetch \in {"exception", "non200"}
    \/ k.fetch = "ok" /\ (Has(AskedBadges(k.monitors), "exception")
                            \/ Has(AskedBadges(k.monitors), "non200"))

\* C16: a failure while a page is polled makes that page UNKNOWN and no other:
\* a page polled without failure is DOWN or UP by its own monitors, and
\* status() ends with the template rendered and a status set on every page.
C16_FailureIsUnknown ==
    /\ \A p \in PolledPages :
          LET page == config.status_pages[p]
          IN  /\ PollFailed(kuma[p]) => page.status = "UNKNOWN"
              /\ (kuma[p].fetch = "ok" /\ ~PollFailed(kuma[p]))
                    => page.status = (IF Has(kuma[p].monitors, "Down") THEN "DOWN" ELSE "UP")
    /\ config.pc = "done" =>
          /\ config.rendered
          /\ \A p \in 1..Len(config.status_pages) :
                config.status_pages[p].status \in {"UP", "DOWN", "UNKNOWN"}

----------------------------------------------------------------------------
(* Properties of repeated generation (Spec) *)

\* Lines 118-163: what one call of generate_modular_chart gives, the file
\* set it returns or the exception it raises.
ChartCall(ac, addons, cfg) ==
    LET readme == generate_modular_readme(ac, addons, cfg)
    IN  IF readme.ok
        THEN [returned |-> TRUE, err |-> "none",
              files |-> Put(TemplateFiles(ac, addons, cfg), "README.md", readme.text)]
        ELSE [returned |-> FALSE, err |-> readme.err, files |-> <<>>]

\* C17: a call of generate_modular_chart returns a file set, README.md
\* included, and a second call with the same arguments returns the same file
\* set.
C17_SameFileSet ==
    (pc \in {"output", "done"} /\ files # <<>>)
    => LET second == ChartCall(app_config, enabled_addons, addon_config)
       IN  /\ response.kind # "exception"
           /\ "README.md" \in Paths(files)
           /\ second.returned
           /\ second.files = files

----------------------------------------------------------------------------
(* Properties of the README (Spec) *)

\* The key of the entry of an add-on in the components list.
ComponentKey(a) ==
    CASE a = "cnpg" -> "component.cnpg"
      [] a = "dask" -> "component.dask"
      [] a = "persistence" -> "component.persistence"
      [] a = "nfs" -> "component.nfs"
      [] a = "external_secrets" -> "component.external_secrets"

\* The entries and sections of the add-ons in a README text agree with the
\* selection: an entry for each enabled add-on and for no other, the database
\* section exactly with cnpg, the NFS section with nfs only.
InSync(text, addons) ==
    /\ \A a \in RegistryKeys : HasKey(text, ComponentKey(a)) <=> InList(a, addons)
    /\ HasKey(text, "section.cnpg") <=> InList("cnpg", addons)
    /\ HasKey(text, "section.nfs") => InList("nfs", addons)

\* C18: generate_modular_readme produces a README, and its component entries
\* and add-on sections agree with enabled_addons.
C18_ReadmeInSync ==
    (pc \in {"output", "done"} /\ files # <<>>)
    => LET readme == generate_modular_readme(app_config, enabled_addons, addon_config)
       IN  /\ readme.ok
           /\ "README.md" \in Paths(files)
           /\ InSync(readme.text, enabled_addons)

----------------------------------------------------------------------------
(* Properties of the template syntax (Spec) *)

\* C19: every templating expression of every file of the file set, the
\* deployment manifest included, opens with two braces in the output text.
C19_DoubleBraces ==
    Assembled =>
        \A f \in 1..Len(files) :
            \A l \in 1..Len(files[f].content) :
                files[f].content[l].open \in {0, 2}

----------------------------------------------------------------------------
(* Properties of the order of enabled_addons (Spec) *)

\* The section of values.yaml of an add-on.
SectionKey(a) ==
    CASE a = "cnpg" -> "cnpg"
      [] a = "dask" -> "dask"
      [] a = "persistence" -> "persistence"
      [] a = "nfs" -> "nfs"
      [] a = "external_secrets" -> "externalSecrets"

\* The keys of the lines of doc that are in set keys, in the order of doc.
KeysAmong(doc, keys) ==
    LET sel == SelectSeq(doc, LAMBDA l : l.key \in keys)
    IN  [i \in 1..Len(sel) |-> sel[i].key]

\* C20: the file set is the one of the set of enabled add-ons listed once
\* each in the order of the registry; the add-on sections of values.yaml and
\* the volume entries of the deployment appear once each in that order.
C20_OrderIndependent ==
    Assembled =>
        LET S == {enabled_addons[j] : j \in 1..Len(enabled_addons)} \cap RegistryKeys
            canon == InRegistryOrder(S, 1)
            vols == (IF "persistence" \in S THEN << <<"d", "a", "t", "a">> >> ELSE <<>>)
                    \o (IF "nfs" \in S THEN << <<"n", "f", "s">> >> ELSE <<>>)
        IN  /\ files = TemplateFiles(app_config, canon, addon_config)
            /\ KeysAmong(ValuesDoc, {SectionKey(a) : a \in RegistryKeys})
                  = [i \in 1..Len(canon) |-> SectionKey(canon[i])]
            /\ ValuesOf(DeploymentDoc, "volumes.name") = vols
            /\ ValuesOf(DeploymentDoc, "volumeMounts.name") = vols

\* C20 witness: nfs is listed before persistence, and the deployment has the
\* volume data before the volume nfs.
C20_Witness ==
    /\ Assembled
    /\ enabled_addons = <<"nfs", "persistence">>
    /\ ValuesOf(DeploymentDoc, "volumes.name") = << <<"d", "a", "t", "a">>, <<"n", "f", "s">> >>

----------------------------------------------------------------------------
(* Properties of the causes of the files (Spec) *)

\* The manifest paths the claim gives to each add-on.
ManifestPaths(a) ==
    CASE a = "cnpg" -> {"templates/cnpg-cluster.yaml", "templates/cnpg-app-user-secret.yaml",
                        "templates/cnpg-superuser-secret.yaml"}
      [] a = "dask" -> {"templates/dask-scheduler-deployment.yaml",
                        "templates/dask-scheduler-service.yaml",
                        "templates/dask-workers-deployment.yaml"}
      [] a = "persistence" -> {"templates/pvc.yaml"}
      [] a = "nfs" -> {"templates/nfs-pv.yaml", "templates/nfs-pvc.yaml"}
      [] a = "external_secrets" -> {"templates/external-secret.yaml"}

\* The add-ons that, enabled alone, put path p in the files mapping, and
\* "ingress" when the ingress flag does.
Causes(p) ==
    {a \in RegistryKeys :
        p \in Paths(CnpgFiles(<<a>>, addon_config) \o OtherAddonFiles(<<a>>))}
    \cup (IF p \in Paths(IngressFiles([app_config EXCEPT !["enable_ingress"] = PyBool(TRUE)]))
          THEN {"ingress"} ELSE {})

\* C21: every entry of the file set other than the base files has exactly one
\* cause: templates/ingress.yaml is there exactly when ingress is enabled, the
\* manifest paths of an add-on exactly when the add-on is in enabled_addons,
\* and no path is written twice.
C21_OneCause ==
    Assembled =>
        /\ \A i, j \in 1..Len(files) : i # j => files[i].path # files[j].path
        /\ "templates/ingress.yaml" \in Paths(files) <=> IngressEnabled
        /\ \A a \in RegistryKeys : \A p \in ManifestPaths(a) :
              p \in Paths(files) <=> InList(a, enabled_addons)
        /\ \A p \in Paths(files) \ SixBaseFiles :
              /\ p \in {"templates/ingress.yaml"} \cup UNION {ManifestPaths(a) : a \in RegistryKeys}
              /\ Cardinality(Causes(p)) = 1

\* C21 witness: ingress and two add-ons are enabled, and their files are in
\* the file set next to each other.
C21_Witness ==
    /\ Assembled /\ IngressEnabled
    /\ enabled_addons = <<"persistence", "nfs">>
    /\ {"templates/ingress.yaml", "templates/pvc.yaml", "templates/nfs-pv.yaml",
        "templates/nfs-pvc.yaml"} \subseteq Paths(files)

----------------------------------------------------------------------------
(* request_app (jira/views.py) *)

JIRA_SERVER == <<"h", "t", "t", "p", "s", ":", "/", "/", "j", "i", "r", "a", ".", "u", "c", "a", "r", ".", "e", "d", "u">>

\* The keys of request.form the description reads, in the order of lines
\* 39-44.
FormFields == <<"submitter_name", "submitter_email", "github_repo", "github_branch",
                "helm_folder", "app_url">>

\* os.getenv('JIRA_PAT'): not set, set to the empty string, set.
JiraPatsIn == {PyNone, PyStr(<<>>), PyStr(<<"p", "a", "t">>)}

\* What a call to the tracker may do.
JiraOutcomes == {"ok", "JIRAError", "ConnectionError"}

\* The key of the issue the tracker creates.
T_key == <<"C", "C", "P", "P", "-", "1">>

InitJira ==
    /\ data = [f |-> EmptyDict, addons |-> <<>>]
    /\ pc = "request_app"
    /\ app_config = NoAppConfig
    /\ enabled_addons = <<>>
    /\ addon_config = NoAddonConfig
    /\ files = <<>>
    /\ response = NoResponse
    /\ gh = NoGh
    /\ zip_file = NoZip
    /\ config = NoConfig
    /\ kuma = <<>>
    /\ \E method \in {"GET", "POST"}, pat \in JiraPatsIn,
          form \in SUBSET {FormFields[i] : i \in 1..Len(FormFields)} :
          jira = [pc |-> "method", method |-> method, pat |-> pat, form |-> form,
                  calls |-> <<>>, err |-> "none", flashes |-> <<>>, rendered |-> FALSE]

\* Mutant of Flash: a message of category danger is dropped.
FlashMutant(j, message, category) ==
    IF category = "danger" THEN j
    ELSE [j EXCEPT !.flashes = Append(@, [message |-> message, category |-> category])]

\* flask.flash(message, category)
Flash(j, message, category) ==
    [j EXCEPT !.flashes = Append(@, [message |-> message, category |-> category])]

\* An exception raised inside the try block of lines 31-59.
JiraRaise(j, err) == [j EXCEPT !.pc = "except", !.err = err]

\* Line 30: the method of the request.
ReqMethod ==
    /\ jira.pc = "method"
    /\ jira' = [jira EXCEPT !.pc = IF jira.method = "POST" THEN "get_jira_client" ELSE "render"]
    /\ UNCHANGED <<data, pc, app_config, enabled_addons, addon_config, files, response, gh,
                   zip_file, config, kuma>>

\* Lines 14-26 and 32: the client of the tracker.
ReqGetJiraClient ==
    /\ jira.pc = "get_jira_client"
    /\ \E o \in JiraOutcomes :
          jira' = IF ~Truthy(jira.pat)
                  THEN JiraRaise(jira, "ValueError")
                  ELSE IF o = "ok"
                  THEN [jira EXCEPT !.pc = "description", !.calls = Append(@, "JIRA")]
                  ELSE JiraRaise([jira EXCEPT !.calls = Append(@, "JIRA")], o)
    /\ UNCHANGED <<data, pc, app_config, enabled_addons, addon_config, files, response, gh,
                   zip_file, config, kuma>>

\* Lines 35-55: the description; request.form[key] raises for a key that is
\* not in the form.
ReqDescription ==
    /\ jira.pc = "description"
    /\ jira' = IF \A i \in 1..Len(FormFields) : FormFields[i] \in jira.form
               THEN [jira EXCEPT !.pc = "create_issue"]
               ELSE JiraRaise(jira, "BadRequestKeyError")
    /\ UNCHANGED <<data, pc, app_config, enabled_addons, addon_config, files, response, gh,
                   zip_file, config, kuma>>

\* Lines 58-59: the issue, and the message of success.
ReqCreateIssue ==
    /\ jira.pc = "create_issue"
    /\ \E o \in JiraOutcomes :
          LET called == [jira EXCEPT !.calls = Append(@, "create_issue")]
          IN  jira' = IF o = "ok"
                      THEN [Flash(called, <<T_key, JIRA_SERVER \o <<"/", "b", "r", "o", "w", "s", "e", "/">> \o T_key>>,
                                  "success") EXCEPT !.pc = "render"]
                      ELSE JiraRaise(called, o)
    /\ UNCHANGED <<data, pc, app_config, enabled_addons, addon_config, files, response, gh,
                   zip_file, config, kuma>>

\* Lines 61-62: every exception of the try block ends in a message.
ReqExcept ==
    /\ jira.pc = "except"
    /\ jira' = [Flash(jira, <<jira.err>>, "danger") EXCEPT !.pc = "render"]
    /\ UNCHANGED <<data, pc, app_config, enabled_addons, addon_config, files, response, gh,
                   zip_file, config, kuma>>

\* Line 64: the form page.
ReqRender ==
    /\ jira.pc = "render"
    /\ jira' = [jira EXCEPT !.pc = "done", !.rendered = TRUE]
    /\ UNCHANGED <<data, pc, app_config, enabled_addons, addon_config, files, response, gh,
                   zip_file, config, kuma>>

NextJira ==
    \/ ReqMethod
    \/ ReqGetJiraClient
    \/ ReqDescription
    \/ ReqCreateIssue
    \/ ReqExcept
    \/ ReqRender

SpecJira == InitJira /\ [][NextJira]_vars

----------------------------------------------------------------------------
(* Properties of request_app (SpecJira) *)

CreateIssueCalls == Cardinality({i \in 1..Len(jira.calls) : jira.calls[i] = "create_issue"})

\* C22: a POST calls create_issue at most once, ends with exactly one
\* message, of success with the key of the ticket and its browse URL or of
\* danger with the text of the error, and with the form page rendered; a GET
\* contacts the tracker never and emits no message.
C22_OneFlash ==
    /\ CreateIssueCalls <= 1
    /\ Len(jira.flashes) <= 1
    /\ jira.method = "GET" => (jira.calls = <<>> /\ jira.flashes = <<>>)
    /\ (jira.method = "POST" /\ jira.pc \in {"render", "done"}) =>
          /\ Len(jira.flashes) = 1
          /\ IF jira.err = "none"
             THEN /\ CreateIssueCalls = 1
                  /\ jira.flashes[1] =
                        [message |-> <<T_key, JIRA_SERVER \o <<"/", "b", "r", "o", "w", "s", "e", "/">> \o T_key>>,
                         category |-> "success"]
             ELSE jira.flashes[1] = [message |-> <<jira.err>>, category |-> "danger"]
    /\ jira.pc = "done" => jira.rendered

\* C22 witness: a POST whose create_issue raised has ended with the one
\* message of danger and the page rendered.
C22_Witness ==
    /\ jira.pc = "done" /\ jira.method = "POST"
    /\ CreateIssueCalls = 1
    /\ jira.err = "JIRAError"
    /\ Len(jira.flashes) = 1 /\ jira.flashes[1].category = "danger"

----------------------------------------------------------------------------
(* Properties of the image reference of values.yaml (Spec) *)

\* An image reference has a tag when its last path component, the text after
\* the last "/", has a ":".
HasTag(image) ==
    \E i \in 1..Len(image) :
        image[i] = ":" /\ \A j \in i..Len(image) : image[j] # "/"

\* C23: the image written to values.yaml always has an explicit tag: a
\* reference without a tag, one whose registry host has a port included, is
\* written as the reference followed by ":latest", and a reference with a tag
\* is written unchanged.
C23_ExplicitTag ==
    Assembled =>
        LET image == app_config["image"].s
        IN  ValuesOf(ValuesDoc, "webapp.container.image")
                = << IF HasTag(image) THEN image ELSE image \o <<":", "l", "a", "t", "e", "s", "t">> >>

----------------------------------------------------------------------------
(* Properties of the references between the manifests (Spec) *)

T_Secret == <<"S", "e", "c", "r", "e", "t">>

T_ExternalSecret == <<"E", "x", "t", "e", "r", "n", "a", "l", "S", "e", "c", "r", "e", "t">>

\* The lines of a manifest that name a resource of the chart written by
\* another manifest.
ReferenceKeys == {"volumes.claimName", "envFrom.secretRef.name", "spec.volumeName",
                  "superuserSecret.name", "bootstrap.initdb.secret.name",
                  "command.scheduler", "backend.service.name"}

\* The kind of the resource such a line names.
ReferredKind(key) ==
    CASE key = "volumes.claimName" -> <<"P", "e", "r", "s", "i", "s", "t", "e", "n", "t", "V", "o", "l", "u", "m", "e", "C", "l", "a", "i", "m">>
      [] key = "spec.volumeName" -> <<"P", "e", "r", "s", "i", "s", "t", "e", "n", "t", "V", "o", "l", "u", "m", "e">>
      [] key \in {"envFrom.secretRef.name", "superuserSecret.name",
                  "bootstrap.initdb.secret.name"} -> T_Secret
      [] key \in {"command.scheduler", "backend.service.name"} -> <<"S", "e", "r", "v", "i", "c", "e">>

\* The resources the manifests of fs refer to: kind, braces and name suffix.
References(fs) ==
    UNION {LET doc == fs[i].content
           IN  {[kind |-> ReferredKind(doc[j].key), open |-> doc[j].open, val |-> doc[j].val] :
                    j \in {j \in 1..Len(doc) : doc[j].key \in ReferenceKeys}}
           : i \in 1..Len(fs)}

\* The resources the manifests of fs define: a manifest defines the resource
\* of its kind and name, and an ExternalSecret the Secret of its target name.
Defines(fs) ==
    UNION {LET doc == fs[i].content
           IN  {[kind |-> doc[k].val, open |-> doc[n].open, val |-> doc[n].val] :
                    <<k, n>> \in {<<k, n>> \in (1..Len(doc)) \X (1..Len(doc)) :
                                    doc[k].key = "kind" /\ doc[n].key = "metadata.name"}}
               \cup
               {[kind |-> T_Secret, open |-> doc[n].open, val |-> doc[n].val] :
                    <<k, n>> \in {<<k, n>> \in (1..Len(doc)) \X (1..Len(doc)) :
                                    /\ doc[k].key = "kind" /\ doc[k].val = T_ExternalSecret
                                    /\ doc[n].key = "spec.target.name"}}
           : i \in 1..Len(fs)}

\* C24: no file set has a dangling reference: every resource of the chart
\* that a manifest names (a claim, a volume, a secret, a service) is defined,
\* as the name or the target name, by a manifest of the same file set,
\* whatever add-ons are enabled.
C24_NoDanglingReference ==
    Assembled => References(files) \subseteq Defines(files)

\* C24 witness: cnpg and nfs are enabled, and the file set holds the two
\* secret references of the cluster, the claim of the deployment and the
\* volume of the claim.
C24_Witness ==
    /\ Assembled
    /\ InList("cnpg", enabled_addons) /\ InList("nfs", enabled_addons)
    /\ {r.val : r \in References(files)}
           = {<<"-", "s", "u", "p", "e", "r", "u", "s", "e", "r">>, <<"-", "a", "p", "p", "-", "u", "s", "e", "r">>, <<"-", "n", "f", "s", "-", "p", "v", "c">>, <<"-", "n", "f", "s", "-", "p", "v">>}
    /\ References(files) \subseteq Defines(files)

----------------------------------------------------------------------------
(* Properties of the repository path (SpecPR) *)

\* The text of a URL of the form https://github.com/<owner>/<repo>, with or
\* without ".git" at its end, after the prefix and that suffix are removed.
OwnerAndRepo(repo_url) ==
    LET rest == SubSeq(repo_url, Len(T_github) + 1, Len(repo_url))
    IN  IF EndsWith(rest, T_git) THEN SubSeq(rest, 1, Len(rest) - Len(T_git)) ELSE rest

\* C25: for a URL https://github.com/<owner>/<repo>, with or without a
\* trailing ".git", the repository path handed to the GitHub client is
\* <owner>/<repo>: the prefix and the ".git" suffix are removed and no other
\* character at the end of the repository name.
C25_RepoPathExact ==
    gh.pc = "get_repo" => gh.repo_path = OwnerAndRepo(gh.repo_url.s)

====
